---- MODULE Spec2Model ----
(***************************************************************************)
(* The registry (naming service) of the replicated file store:            *)
(* node registration and heartbeats, replica placement on allocate,       *)
(* commit-driven file states, report-missing, delete and the auto-healing *)
(* pass, and the upload handler of the gateway that calls it.  Time is the wall clock in seconds; every now() of a handler     *)
(* reads the variable clock.                                              *)
(***************************************************************************)
EXTENDS Integers, Sequences, FiniteSets, TLC

VARIABLES
    nodes,      \* Store.nodes : nodeId -> NodeInfo
    files,      \* Store.files : fileId -> FileMetadata
    clock,      \* wall clock, seconds
    pending,    \* allocate requests between pickReplicas and the insert
    last,       \* the last completed operation and its response
    granted,    \* fileId -> node ids returned by the allocate that made the record
    steps,      \* number of store operations and clock ticks since Init
    lock,       \* Store.mu as left by the handlers that answer while holding it
    gw,         \* the uploads the gateway is working on, by fileId
    tasks,      \* the goroutines started by go sv.store.persist()
    disk,       \* files.json, nodes.json and their *.tmp files
    reads       \* handleFileInfo calls that are encoding their record, by fileId

vars == <<nodes, files, clock, pending, last, granted, steps, lock, gw,
          tasks, disk, reads>>

(* ------------------------------ bounds ------------------------------- *)

MaxClock == 11
MaxFiles == 2
MaxInflight == 2
MaxSteps == 7
MaxTasks == 2

NodeIds == {"A", "B", "C"}
CapVals == {0, 2}
UsedVals == {0, 2}
SizeVals == {0, 2}
FileNames == {"", "x"}
Checksums == {<<"md5:", "ab">>, <<"sha256:", "ab">>}
SubNanos == {0, 1}

(* --------------------------- program constants ----------------------- *)

RepFactor == 2
TSuspect == 10
TDown == 20

TickSteps == {TSuspect + 1}

ReplicaReady == "READY"
ReplicaMissing == "MISSING"
ReplicaStale == "STALE"

StateAllocated == "ALLOCATED"
StatePartial == "PARTIAL"
StateAvailable == "AVAILABLE"
StateDegraded == "DEGRADED"
StateDeleted == "DELETED"

NodeHealthy == "HEALTHY"
NodeSuspect == "SUSPECT"
NodeDown == "DOWN"

StatusOK == 200
StatusBadRequest == 400
StatusNotFound == 404
StatusConflict == 409
StatusBadGateway == 502

\* time.Time{} : the zero time, before every now()
ZeroTime == -1

(* ------------------------------ helpers ------------------------------ *)

UrlOf(id) == <<"http", id>>

\* healthOf with >= for > at both thresholds
healthOfInclusive(n, t) ==
    LET ago == t - n.lastSeenAt IN
    IF ago >= TDown THEN NodeDown
    ELSE IF ago >= TSuspect THEN NodeSuspect
    ELSE NodeHealthy

healthOf(n, t) ==
    LET ago == t - n.lastSeenAt IN
    IF ago > TDown THEN NodeDown
    ELSE IF ago > TSuspect THEN NodeSuspect
    ELSE NodeHealthy

freeBytes(n) == n.capacityBytes - n.usedBytes

\* loadFactor(a) < loadFactor(b); the quotient of the two small integers is
\* compared by cross-multiplication, a non-positive capacity is +infinity
loadLess(a, b) ==
    IF a.capacityBytes <= 0 THEN FALSE
    ELSE IF b.capacityBytes <= 0 THEN TRUE
    ELSE a.usedBytes * b.capacityBytes < b.usedBytes * a.capacityBytes

loadEq(a, b) == ~loadLess(a, b) /\ ~loadLess(b, a)

\* the less function of pickReplicas without the lastChosen tie-break
pickLessNoTieBreak(a, b) == loadLess(a, b)

\* the less function handed to sort.Slice by pickReplicas
pickLess(a, b) ==
    IF loadEq(a, b) THEN a.lastChosen < b.lastChosen ELSE loadLess(a, b)

\* the less function handed to sort.Slice by checkAndHealReplicas
healLess(a, b) == loadLess(a, b)

\* uuidLike: a hash of the seed and of time.Now().UnixNano()
uuidLike(seed, t, sub) == <<seed, t, sub>>

Range(s) == {s[i] : i \in 1..Len(s)}

\* The first k entries of the slice cands of pickReplicas, holding the node
\* ids S, after its sort.Slice: sort.Slice is not stable and the slice is
\* filled in map iteration order, so every order of ties can come out.
pickSorted(S, k) ==
    {q \in [1..k -> S] :
        /\ \A i, j \in 1..k :
              i < j => q[i] # q[j] /\ ~pickLess(nodes[q[j]], nodes[q[i]])
        /\ \A c \in S \ Range(q) : \A i \in 1..k : ~pickLess(nodes[c], nodes[q[i]])}

\* the same for the slice candidates of checkAndHealReplicas
healSorted(S, k) ==
    {q \in [1..k -> S] :
        /\ \A i, j \in 1..k :
              i < j => q[i] # q[j] /\ ~healLess(nodes[q[j]], nodes[q[i]])
        /\ \A c \in S \ Range(q) : \A i \in 1..k : ~healLess(nodes[c], nodes[q[i]])}

\* the candidate filter of pickReplicas with > for >=
pickCandsStrict(size) ==
    {id \in DOMAIN nodes :
        healthOf(nodes[id], clock) = NodeHealthy /\ freeBytes(nodes[id]) > size}

\* the candidate filter of pickReplicas
pickCands(size) ==
    {id \in DOMAIN nodes :
        healthOf(nodes[id], clock) = NodeHealthy /\ freeBytes(nodes[id]) >= size}

\* pickReplicas: the possible results for a request of the given size, as
\* sequences of node ids; the empty set when it returns the error
pickReplicas(size) ==
    IF Cardinality(pickCands(size)) < RepFactor THEN {}
    ELSE pickSorted(pickCands(size), RepFactor)

\* the node ids of a pending or stored record's replica list
ReplicaIds(meta) == {meta.replicas[i].nodeId : i \in 1..Len(meta.replicas)}

\* Store.mu: free, held by a handleCommit whose response is written and
\* whose deferred Unlock has not run yet, or read-locked for ever by a
\* handler that left without RUnlock
LockFree == "free"
LockCommit == "commit"
LockLeaked == "leaked"

\* no persist goroutine is between its RLock and its deferred RUnlock
NoReader == DOMAIN tasks.run = {}

\* a section between mu.Lock() and its Unlock(), taken as one step
Exclusive == lock = LockFree /\ NoReader /\ lock' = lock

\* a section between mu.RLock() and its RUnlock(), taken as one step
Shared == lock # LockCommit /\ lock' = lock

NoResp == [op |-> "none", code |-> 0, fid |-> <<>>, node |-> "", up |-> {},
           size |-> 0, state |-> "", reps |-> <<>>, pre |-> "", again |-> FALSE,
           view |-> {}, persist |-> FALSE]

Resp(op, code) == [NoResp EXCEPT !.op = op, !.code = code]

\* the response of a handler that started go sv.store.persist()
Saved(op, code) == [Resp(op, code) EXCEPT !.persist = TRUE]

\* one more operation within the explored run length
Count == steps < MaxSteps /\ steps' = steps + 1

(* ------------------------- snapshots on disk ------------------------- *)

\* persist writes filesPath first and nodesPath second
FilesPath == 1
NodesPath == 2
Paths == {FilesPath, NodesPath}

\* a name that is not in the directory
NoFile == [exists |-> FALSE, data |-> <<>>, fds |-> {}]

\* json.MarshalIndent of the map written to path p; <<>> is the content of
\* an empty file
marshal(p) == IF p = FilesPath THEN <<files>> ELSE <<nodes>>

\* a file holding one complete snapshot, open in no goroutine
WholeFile(p) == [exists |-> TRUE, data |-> marshal(p), fds |-> {}]

\* the data directory before the first snapshot
EmptyDisk == [p \in Paths |-> [tmp |-> NoFile, json |-> NoFile]]

\* the data directory the maps were loaded from
LoadedDisk == [p \in Paths |-> [tmp |-> NoFile, json |-> WholeFile(p)]]

\* no snapshot goroutine started or running
NoTasks == [queued |-> 0, run |-> <<>>, failed |-> FALSE]

\* a step that starts no goroutine and touches no file
NoIO == UNCHANGED <<tasks, disk, reads>>

\* go sv.store.persist() of a handler whose response is last'
Spawn ==
    /\ tasks' = IF last'.persist /\ tasks.queued < MaxTasks
                THEN [tasks EXCEPT !.queued = @ + 1]
                ELSE tasks
    /\ UNCHANGED <<disk, reads>>

\* the frame of a step of a persist goroutine
TaskFrame ==
    UNCHANGED <<nodes, files, clock, pending, last, granted, steps, lock, gw, reads>>

\* persist: s.mu.RLock() of a goroutine that was started
PersistBegin ==
    /\ tasks.queued > 0
    /\ lock # LockCommit
    /\ LET t == CHOOSE i \in 1..MaxTasks :
                  /\ i \notin DOMAIN tasks.run
                  /\ \A j \in 1..MaxTasks : j < i => j \in DOMAIN tasks.run
       IN tasks' = [tasks EXCEPT
                       !.queued = @ - 1,
                       !.run = [i \in DOMAIN tasks.run \cup {t} |->
                                  IF i = t THEN [path |-> FilesPath, pc |-> "open"]
                                  ELSE tasks.run[i]]]
    /\ UNCHANGED disk
    /\ TaskFrame

\* writeJSONFile: os.WriteFile opens path.tmp with O_CREATE|O_TRUNC
PersistOpen(t) ==
    /\ t \in DOMAIN tasks.run
    /\ tasks.run[t].pc = "open"
    /\ LET p == tasks.run[t].path IN
       disk' = [disk EXCEPT ![p].tmp =
                   [exists |-> TRUE, data |-> <<>>, fds |-> @.fds \cup {t}]]
    /\ tasks' = [tasks EXCEPT !.run[t].pc = "write"]
    /\ TaskFrame

\* the file a goroutine holds open: the name its inode has now
heldAt(t, p) ==
    IF t \in disk[p].tmp.fds THEN "tmp"
    ELSE IF t \in disk[p].json.fds THEN "json"
    ELSE "unlinked"

\* writeJSONFile: os.WriteFile writes the marshalled map and closes
PersistWrite(t) ==
    /\ t \in DOMAIN tasks.run
    /\ tasks.run[t].pc = "write"
    /\ LET p == tasks.run[t].path
           w == heldAt(t, p) IN
       disk' = IF w = "tmp"
               THEN [disk EXCEPT ![p].tmp.data = marshal(p), ![p].tmp.fds = @ \ {t}]
               ELSE IF w = "json"
               THEN [disk EXCEPT ![p].json.data = marshal(p), ![p].json.fds = @ \ {t}]
               ELSE disk
    /\ tasks' = [tasks EXCEPT !.run[t].pc = "rename"]
    /\ TaskFrame

\* writeJSONFile without its os.Rename
PersistRenameKeepsOld(t) ==
    /\ t \in DOMAIN tasks.run
    /\ tasks.run[t].pc = "rename"
    /\ UNCHANGED disk
    /\ tasks' =
         IF tasks.run[t].path = FilesPath
         THEN [tasks EXCEPT !.run[t] = [path |-> NodesPath, pc |-> "open"]]
         ELSE [tasks EXCEPT !.run = [i \in DOMAIN tasks.run \ {t} |-> tasks.run[i]]]
    /\ TaskFrame

\* writeJSONFile: os.Rename(tmp, path), its error dropped by persist; after
\* nodesPath the deferred RUnlock runs and the goroutine ends
PersistRename(t) ==
    /\ t \in DOMAIN tasks.run
    /\ tasks.run[t].pc = "rename"
    /\ LET p == tasks.run[t].path
           ok == disk[p].tmp.exists
           moved == IF tasks.run[t].path = FilesPath
                    THEN [tasks EXCEPT !.run[t] = [path |-> NodesPath, pc |-> "open"]]
                    ELSE [tasks EXCEPT !.run = [i \in DOMAIN tasks.run \ {t} |-> tasks.run[i]]]
       IN /\ disk' = IF ok
                     THEN [disk EXCEPT ![p].json = disk[p].tmp, ![p].tmp = NoFile]
                     ELSE disk
          /\ tasks' = [moved EXCEPT !.failed = @ \/ ~ok]
    /\ TaskFrame

(* ------------------------------- Init -------------------------------- *)

Init ==
    /\ lock = LockFree
    /\ gw = <<>>
    /\ nodes = <<>>
    /\ files = <<>>
    /\ clock = 0
    /\ pending = <<>>
    /\ last = NoResp
    /\ granted = <<>>
    /\ steps = 0
    /\ tasks = NoTasks
    /\ disk = EmptyDisk
    /\ reads = <<>>

(* --------------------------- node management ------------------------- *)

\* handleRegisterNode keeping the usedBytes of a node it already knows
RegisterNodeKeepsUsed(id, cap) ==
    /\ Exclusive
    /\ UNCHANGED gw
    /\ Count
    /\ cap > 0
    /\ nodes' = (id :> [nodeId |-> id, url |-> UrlOf(id), capacityBytes |-> cap,
                        usedBytes |-> IF id \in DOMAIN nodes
                                      THEN nodes[id].usedBytes ELSE 0,
                        status |-> NodeHealthy,
                        lastSeenAt |-> clock, lastChosen |-> ZeroTime])
                @@ nodes
    /\ last' = [Saved("register-node", StatusOK) EXCEPT !.node = id, !.size = cap]
    /\ UNCHANGED <<files, clock, pending, granted>>
    /\ Spawn

\* handleRegisterNode deleting the record of a node it already knows
RegisterNodeRemovesKnown(id, cap) ==
    /\ Exclusive
    /\ UNCHANGED gw
    /\ Count
    /\ cap > 0
    /\ nodes' = IF id \in DOMAIN nodes
                THEN [n \in DOMAIN nodes \ {id} |-> nodes[n]]
                ELSE (id :> [nodeId |-> id, url |-> UrlOf(id), capacityBytes |-> cap,
                             usedBytes |-> 0, status |-> NodeHealthy,
                             lastSeenAt |-> clock, lastChosen |-> ZeroTime])
                     @@ nodes
    /\ last' = [Saved("register-node", StatusOK) EXCEPT !.node = id, !.size = cap]
    /\ UNCHANGED <<files, clock, pending, granted>>
    /\ Spawn

\* handleRegisterNode, accepted payload
RegisterNode(id, cap) ==
    /\ Exclusive
    /\ UNCHANGED gw
    /\ Count
    /\ cap > 0
    /\ nodes' = (id :> [nodeId |-> id, url |-> UrlOf(id), capacityBytes |-> cap,
                        usedBytes |-> 0, status |-> NodeHealthy,
                        lastSeenAt |-> clock, lastChosen |-> ZeroTime])
                @@ nodes
    /\ last' = [Saved("register-node", StatusOK) EXCEPT !.node = id, !.size = cap]
    /\ UNCHANGED <<files, clock, pending, granted>>
    /\ Spawn

\* handleRegisterNode, rejected payload: empty nodeId, empty url or
\* capacityBytes <= 0
RegisterNodeBad(id, url, cap) ==
    /\ UNCHANGED <<lock, gw>>
    /\ UNCHANGED steps
    /\ id = "" \/ url = "" \/ cap <= 0
    /\ last' = Resp("register-node", StatusBadRequest)
    /\ UNCHANGED <<nodes, files, clock, pending, granted>>
    /\ NoIO

\* handleHeartbeat creating the record of a node it does not know
HeartbeatUpserts(id, used) ==
    /\ Exclusive
    /\ UNCHANGED gw
    /\ Count
    /\ nodes' = (id :> [nodeId |-> id, url |-> UrlOf(id), capacityBytes |-> 0,
                        usedBytes |-> used, status |-> NodeHealthy,
                        lastSeenAt |-> clock, lastChosen |-> ZeroTime]) @@ nodes
    /\ last' = [Resp("heartbeat", IF id \in DOMAIN nodes THEN StatusOK ELSE StatusNotFound)
                  EXCEPT !.node = id, !.size = used]
    /\ UNCHANGED <<files, clock, pending, granted>>
    /\ NoIO

\* handleHeartbeat
Heartbeat(id, used) ==
    /\ Exclusive
    /\ UNCHANGED gw
    /\ Count
    /\ IF id \in DOMAIN nodes
       THEN LET seen == [nodes[id] EXCEPT !.usedBytes = used, !.lastSeenAt = clock]
                n == [seen EXCEPT !.status = healthOf(seen, clock)]
            IN /\ nodes' = [nodes EXCEPT ![id] = n]
               /\ last' = [Saved("heartbeat", StatusOK) EXCEPT
                              !.node = id, !.size = used, !.state = n.status]
       ELSE /\ last' = [Resp("heartbeat", StatusNotFound) EXCEPT !.node = id, !.size = used]
            /\ UNCHANGED nodes
    /\ UNCHANGED <<files, clock, pending, granted>>
    /\ Spawn

(* ------------------------------ allocate ----------------------------- *)

\* strings.HasPrefix on a checksum held as <<prefix, hex digits>>
HasPrefix(cs, prefix) == cs[1] = prefix

ValidAlloc(fn, size, cs) == fn # "" /\ size > 0 /\ HasPrefix(cs, "sha256:")

\* handleAllocate, rejected payload
AllocateBad(fn, size, cs) ==
    /\ UNCHANGED <<lock, gw>>
    /\ UNCHANGED steps
    /\ ~ValidAlloc(fn, size, cs)
    /\ last' = Resp("allocate", StatusBadRequest)
    /\ UNCHANGED <<nodes, files, clock, pending, granted>>
    /\ NoIO

\* the FileMetadata built by handleAllocate from the picked nodes
NewMeta(fid, fn, size, cs, q) ==
    [fileId |-> fid, filename |-> fn, size |-> size, checksum |-> cs,
     version |-> 1, state |-> StateAllocated,
     createdAt |-> clock, updatedAt |-> clock,
     replicas |-> [i \in 1..Len(q) |->
                     [nodeId |-> q[i], url |-> nodes[q[i]].url,
                      status |-> ReplicaReady, lastVerifiedAt |-> clock]]]

\* handleAllocate up to its Lock(): uuidLike, pickReplicas under the read
\* lock, then either the 409 response or the file record built from the
\* picked nodes
AllocatePick(slot, fn, size, cs, sub) ==
    /\ Shared
    /\ UNCHANGED gw
    /\ Count
    /\ ValidAlloc(fn, size, cs)
    /\ slot \notin DOMAIN pending
    /\ \A s \in 1..MaxInflight : s < slot => s \in DOMAIN pending
    /\ IF pickReplicas(size) = {}
       THEN /\ last' = [Resp("allocate", StatusConflict) EXCEPT !.size = size]
            /\ UNCHANGED pending
       ELSE /\ Cardinality(DOMAIN files) + Cardinality(DOMAIN pending) < MaxFiles
            /\ \E q \in pickReplicas(size) :
                 pending' = (slot :> NewMeta(uuidLike(fn, clock, sub), fn, size, cs, q))
                            @@ pending
            /\ UNCHANGED last
    /\ UNCHANGED <<nodes, files, clock, granted>>
    /\ NoIO

\* handleAllocate from its Lock() on, also reserving the bytes on the
\* picked nodes
AllocateInsertReserves(slot) ==
    /\ Exclusive
    /\ UNCHANGED gw
    /\ Count
    /\ slot \in DOMAIN pending
    /\ LET meta == pending[slot]
           picked == {meta.replicas[i].nodeId : i \in 1..Len(meta.replicas)}
       IN /\ files' = (meta.fileId :> meta) @@ files
          /\ nodes' = [id \in DOMAIN nodes |->
                         IF id \in picked
                         THEN [nodes[id] EXCEPT !.lastChosen = clock,
                                                !.usedBytes = @ + meta.size]
                         ELSE nodes[id]]
          /\ last' = [Saved("allocate", StatusOK) EXCEPT
                         !.fid = meta.fileId, !.size = meta.size]
    /\ granted' = (pending[slot].fileId :>
                      [i \in 1..Len(pending[slot].replicas) |->
                         pending[slot].replicas[i].nodeId]) @@ granted
    /\ pending' = [s \in DOMAIN pending \ {slot} |-> pending[s]]
    /\ UNCHANGED clock
    /\ Spawn

\* handleAllocate from its Lock() on: insert the record, stamp lastChosen
\* on the picked nodes, respond
AllocateInsert(slot) ==
    /\ Exclusive
    /\ UNCHANGED gw
    /\ Count
    /\ slot \in DOMAIN pending
    /\ LET meta == pending[slot]
           picked == {meta.replicas[i].nodeId : i \in 1..Len(meta.replicas)}
       IN /\ files' = (meta.fileId :> meta) @@ files
          /\ nodes' = [id \in DOMAIN nodes |->
                         IF id \in picked
                         THEN [nodes[id] EXCEPT !.lastChosen = clock]
                         ELSE nodes[id]]
          /\ last' = [Saved("allocate", StatusOK) EXCEPT
                         !.fid = meta.fileId, !.size = meta.size,
                         !.reps = [i \in 1..Len(meta.replicas) |->
                                     [nodeId |-> meta.replicas[i].nodeId,
                                      url |-> meta.replicas[i].url]],
                         !.pre = IF meta.fileId \in DOMAIN files
                                 THEN files[meta.fileId].state ELSE ""]
    /\ granted' = (pending[slot].fileId :>
                      [i \in 1..Len(pending[slot].replicas) |->
                         pending[slot].replicas[i].nodeId]) @@ granted
    /\ pending' = [s \in DOMAIN pending \ {slot} |-> pending[s]]
    /\ UNCHANGED clock
    /\ Spawn

(* ------------------------------- commit ------------------------------ *)

\* the count of handleCommit with a break after the first uploaded replica
commitCountStopsAtFirst(meta, U) ==
    IF \E i \in 1..Len(meta.replicas) : meta.replicas[i].nodeId \in U THEN 1 ELSE 0

\* the count of handleCommit counting only the replicas it flips to READY
commitCountNewlyReady(meta, U) ==
    Cardinality({i \in 1..Len(meta.replicas) :
        meta.replicas[i].nodeId \in U /\ meta.replicas[i].status # ReplicaReady})

\* the count computed by handleCommit
commitCount(meta, U) ==
    Cardinality({i \in 1..Len(meta.replicas) : meta.replicas[i].nodeId \in U})

\* the state switch of handleCommit with the PARTIAL bound off by one
commitStateOffByOne(count) ==
    IF count = 0 THEN StateAllocated
    ELSE IF count <= RepFactor THEN StatePartial
    ELSE StateAvailable

\* the state switch of handleCommit
commitState(count) ==
    IF count = 0 THEN StateAllocated
    ELSE IF count < RepFactor THEN StatePartial
    ELSE StateAvailable

\* handleCommit stamping lastVerifiedAt on every replica of the file
commitMetaTouchesAll(meta, U, t) ==
    [meta EXCEPT
        !.replicas = [i \in 1..Len(meta.replicas) |->
                        IF meta.replicas[i].nodeId \in U
                        THEN [meta.replicas[i] EXCEPT !.status = ReplicaReady,
                                                      !.lastVerifiedAt = t]
                        ELSE [meta.replicas[i] EXCEPT !.lastVerifiedAt = t]],
        !.state = commitState(commitCount(meta, U)),
        !.updatedAt = t]

\* the record left by a handleCommit that bumps the version
commitMetaBumpsVersion(meta, U, t) ==
    [meta EXCEPT
        !.replicas = [i \in 1..Len(meta.replicas) |->
                        IF meta.replicas[i].nodeId \in U
                        THEN [meta.replicas[i] EXCEPT !.status = ReplicaReady,
                                                      !.lastVerifiedAt = t]
                        ELSE meta.replicas[i]],
        !.state = commitState(commitCount(meta, U)),
        !.version = @ + 1,
        !.updatedAt = t]

\* the record left by a handleCommit that leaves a DEGRADED file DEGRADED
commitMetaKeepsDegraded(meta, U, t) ==
    [meta EXCEPT
        !.replicas = [i \in 1..Len(meta.replicas) |->
                        IF meta.replicas[i].nodeId \in U
                        THEN [meta.replicas[i] EXCEPT !.status = ReplicaReady,
                                                      !.lastVerifiedAt = t]
                        ELSE meta.replicas[i]],
        !.state = IF meta.state = StateDegraded THEN StateDegraded
                  ELSE commitState(commitCount(meta, U)),
        !.updatedAt = t]

\* the record left by handleCommit
commitMeta(meta, U, t) ==
    [meta EXCEPT
        !.replicas = [i \in 1..Len(meta.replicas) |->
                        IF meta.replicas[i].nodeId \in U
                        THEN [meta.replicas[i] EXCEPT !.status = ReplicaReady,
                                                      !.lastVerifiedAt = t]
                        ELSE meta.replicas[i]],
        !.state = commitState(commitCount(meta, U)),
        !.updatedAt = t]

\* handleCommit
Commit(fid, U) ==
    /\ Exclusive
    /\ UNCHANGED gw
    /\ Count
    /\ IF fid \in DOMAIN files
       THEN /\ files' = [files EXCEPT ![fid] = commitMeta(@, U, clock)]
            /\ last' = [Saved("commit", StatusOK) EXCEPT
                           !.fid = fid, !.up = U, !.state = files'[fid].state,
                           !.pre = files[fid].state,
                           !.again = (/\ last.op = "commit" /\ last.code = StatusOK
                                      /\ last.fid = fid /\ last.up = U)]
       ELSE /\ last' = [Resp("commit", StatusNotFound) EXCEPT !.fid = fid, !.up = U]
            /\ UNCHANGED files
    /\ UNCHANGED <<nodes, clock, pending, granted>>
    /\ Spawn

\* a handleCommit that answers from its count and loses the write
CommitRespondNoWrite(fid, U) ==
    /\ Count
    /\ lock = LockFree
    /\ NoReader
    /\ lock' = LockCommit
    /\ UNCHANGED gw
    /\ IF fid \in DOMAIN files
       THEN last' = [Saved("commit", StatusOK) EXCEPT
                       !.fid = fid, !.up = U,
                       !.state = commitMeta(files[fid], U, clock).state,
                       !.pre = files[fid].state]
       ELSE last' = [Resp("commit", StatusNotFound) EXCEPT !.fid = fid, !.up = U]
    /\ UNCHANGED <<nodes, files, clock, pending, granted>>
    /\ Spawn

\* handleCommit up to the write of its response: the deferred Unlock has
\* not run yet when the client reads the answer
CommitRespond(fid, U) ==
    /\ Count
    /\ lock = LockFree
    /\ NoReader
    /\ lock' = LockCommit
    /\ UNCHANGED gw
    /\ IF fid \in DOMAIN files
       THEN /\ files' = [files EXCEPT ![fid] = commitMeta(@, U, clock)]
            /\ last' = [Saved("commit", StatusOK) EXCEPT
                           !.fid = fid, !.up = U, !.state = files'[fid].state,
                           !.pre = files[fid].state]
       ELSE /\ last' = [Resp("commit", StatusNotFound) EXCEPT !.fid = fid, !.up = U]
            /\ UNCHANGED files
    /\ UNCHANGED <<nodes, clock, pending, granted>>
    /\ Spawn

\* the deferred Unlock of handleCommit
CommitUnlock ==
    /\ lock = LockCommit
    /\ lock' = LockFree
    /\ UNCHANGED <<nodes, files, clock, pending, last, granted, steps, gw>>
    /\ NoIO

(* --------------------------- report-missing -------------------------- *)

\* handleReportMissing without the AVAILABLE -> DEGRADED transition
reportMetaKeepsState(meta, n, t) ==
    [meta EXCEPT
        !.replicas = [i \in 1..Len(meta.replicas) |->
                        IF meta.replicas[i].nodeId = n
                        THEN [meta.replicas[i] EXCEPT !.status = ReplicaMissing]
                        ELSE meta.replicas[i]],
        !.updatedAt = t]

\* handleReportMissing degrading whatever the current state is
reportMetaDegradesAlways(meta, n, t) ==
    LET reps == [i \in 1..Len(meta.replicas) |->
                   IF meta.replicas[i].nodeId = n
                   THEN [meta.replicas[i] EXCEPT !.status = ReplicaMissing]
                   ELSE meta.replicas[i]]
        missing == Cardinality({i \in 1..Len(reps) : reps[i].status # ReplicaReady})
    IN [meta EXCEPT
          !.replicas = reps,
          !.state = IF missing > 0 THEN StateDegraded ELSE meta.state,
          !.updatedAt = t]

\* the record left by handleReportMissing
reportMeta(meta, n, t) ==
    LET reps == [i \in 1..Len(meta.replicas) |->
                   IF meta.replicas[i].nodeId = n
                   THEN [meta.replicas[i] EXCEPT !.status = ReplicaMissing]
                   ELSE meta.replicas[i]]
        missing == Cardinality({i \in 1..Len(reps) : reps[i].status # ReplicaReady})
    IN [meta EXCEPT
          !.replicas = reps,
          !.state = IF missing > 0 /\ meta.state = StateAvailable
                    THEN StateDegraded ELSE meta.state,
          !.updatedAt = t]

\* handleReportMissing
ReportMissing(fid, n) ==
    /\ Exclusive
    /\ UNCHANGED gw
    /\ Count
    /\ IF fid \in DOMAIN files
       THEN /\ files' = [files EXCEPT ![fid] = reportMeta(@, n, clock)]
            /\ last' = [Saved("report-missing", StatusOK) EXCEPT
                           !.fid = fid, !.node = n, !.state = files'[fid].state,
                           !.pre = files[fid].state]
       ELSE /\ last' = [Resp("report-missing", StatusNotFound) EXCEPT
                           !.fid = fid, !.node = n]
            /\ UNCHANGED files
    /\ UNCHANGED <<nodes, clock, pending, granted>>
    /\ Spawn

(* ------------------------------ lookup ------------------------------- *)

\* the list of handleLookup with the READY replicas first, whatever the
\* health of their nodes
lookupOutReadyFirst(meta) ==
    LET isReady(rep) == rep.status = ReplicaReady
        ready[i \in 0..Len(meta.replicas)] ==
            IF i = 0 THEN <<>>
            ELSE IF isReady(meta.replicas[i])
                 THEN Append(ready[i - 1], [nodeId |-> meta.replicas[i].nodeId,
                                            url |-> meta.replicas[i].url])
                 ELSE ready[i - 1]
        others[i \in 0..Len(meta.replicas)] ==
            IF i = 0 THEN <<>>
            ELSE IF ~isReady(meta.replicas[i])
                 THEN Append(others[i - 1], [nodeId |-> meta.replicas[i].nodeId,
                                             url |-> meta.replicas[i].url])
                 ELSE others[i - 1]
    IN ready[Len(meta.replicas)] \o others[Len(meta.replicas)]

\* the list returned by handleLookup: the replicas on HEALTHY nodes in
\* replica-list order, then the others in replica-list order
lookupOut(meta) ==
    LET isHealthy(rep) == healthOf(nodes[rep.nodeId], clock) = NodeHealthy
        healthy[i \in 0..Len(meta.replicas)] ==
            IF i = 0 THEN <<>>
            ELSE IF isHealthy(meta.replicas[i])
                 THEN Append(healthy[i - 1], [nodeId |-> meta.replicas[i].nodeId,
                                              url |-> meta.replicas[i].url])
                 ELSE healthy[i - 1]
        others[i \in 0..Len(meta.replicas)] ==
            IF i = 0 THEN <<>>
            ELSE IF ~isHealthy(meta.replicas[i])
                 THEN Append(others[i - 1], [nodeId |-> meta.replicas[i].nodeId,
                                             url |-> meta.replicas[i].url])
                 ELSE others[i - 1]
    IN healthy[Len(meta.replicas)] \o others[Len(meta.replicas)]

\* handleLookup; healthOf dereferences the node of every replica, so a
\* replica whose node is not in the map makes the handler panic,
\* and the read lock it holds at that point is never released
Lookup(fid) ==
    /\ UNCHANGED steps
    /\ lock # LockCommit
    /\ UNCHANGED gw
    /\ IF fid \notin DOMAIN files
       THEN /\ last' = [Resp("lookup", StatusNotFound) EXCEPT !.fid = fid]
            /\ UNCHANGED lock
       ELSE IF \E i \in 1..Len(files[fid].replicas) :
                    files[fid].replicas[i].nodeId \notin DOMAIN nodes
       THEN /\ last' = [Resp("lookup", 0) EXCEPT !.fid = fid, !.state = "panic"]
            /\ lock' = LockLeaked
       ELSE /\ last' = [Resp("lookup", StatusOK) EXCEPT
                          !.fid = fid, !.reps = lookupOut(files[fid])]
            /\ UNCHANGED lock
    /\ UNCHANGED <<nodes, files, clock, pending, granted>>
    /\ NoIO

\* handleFileInfo with no writer running while its response is encoded
FileInfo(fid) ==
    /\ Shared
    /\ UNCHANGED gw
    /\ UNCHANGED steps
    /\ IF fid \in DOMAIN files
       THEN last' = [Resp("file-info", StatusOK) EXCEPT
                       !.fid = fid, !.state = files[fid].state,
                       !.view = {files[fid]}]
       ELSE last' = [Resp("file-info", StatusNotFound) EXCEPT !.fid = fid]
    /\ UNCHANGED <<nodes, files, clock, pending, granted>>
    /\ NoIO

\* the frame of a step of a handleFileInfo that has left its read lock
EncodeFrame ==
    UNCHANGED <<nodes, files, clock, pending, granted, steps, lock, gw, tasks, disk>>

\* handleFileInfo from RLock to RUnlock: the pointer to the record is
\* fetched and nothing of the record is read yet
FileInfoFetch(fid) ==
    /\ lock # LockCommit
    /\ fid \in DOMAIN files
    /\ fid \notin DOMAIN reads
    /\ reads' = [f \in DOMAIN reads \cup {fid} |->
                   IF f = fid
                   THEN [pc |-> "fetched", replicas |-> <<>>,
                         at |-> files[fid], since |-> steps]
                   ELSE reads[f]]
    /\ UNCHANGED last
    /\ EncodeFrame

\* writeJSONResp(w, meta) after the RUnlock: the encoder walks the struct
\* in field order and reads Replicas before State and UpdatedAt; the
\* fields before Replicas are never written after the allocate
FileInfoReadReplicas(fid) ==
    /\ fid \in DOMAIN reads
    /\ fid \in DOMAIN files
    /\ reads[fid].pc = "fetched"
    /\ reads' = [reads EXCEPT ![fid].pc = "replicas",
                              ![fid].replicas = files[fid].replicas]
    /\ UNCHANGED last
    /\ EncodeFrame

\* the encoder reads State, CreatedAt and UpdatedAt and the response is sent
FileInfoRespond(fid) ==
    /\ fid \in DOMAIN reads
    /\ fid \in DOMAIN files
    /\ reads[fid].pc = "replicas"
    /\ last' = [Resp("file-info", StatusOK) EXCEPT
                   !.fid = fid, !.state = files[fid].state,
                   !.view = {[files[fid] EXCEPT !.replicas = reads[fid].replicas]}]
    /\ reads' = [f \in DOMAIN reads \ {fid} |-> reads[f]]
    /\ EncodeFrame

(* ------------------------------ delete ------------------------------- *)

\* handleDeleteFile marking the record DELETED instead of removing it
DeleteFileSoft(fid) ==
    /\ Exclusive
    /\ UNCHANGED gw
    /\ Count
    /\ IF fid \in DOMAIN files
       THEN /\ files' = [files EXCEPT ![fid].state = StateDeleted]
            /\ last' = [Saved("delete-file", StatusOK) EXCEPT
                           !.fid = fid, !.pre = files[fid].state]
       ELSE /\ last' = [Resp("delete-file", StatusNotFound) EXCEPT !.fid = fid]
            /\ UNCHANGED files
    /\ UNCHANGED <<nodes, clock, pending, granted>>
    /\ Spawn

\* handleDeleteFile
DeleteFile(fid) ==
    /\ Exclusive
    /\ UNCHANGED gw
    /\ Count
    /\ IF fid \in DOMAIN files
       THEN /\ files' = [f \in DOMAIN files \ {fid} |-> files[f]]
            /\ granted' = [f \in DOMAIN granted \ {fid} |-> granted[f]]
            /\ last' = [Saved("delete-file", StatusOK) EXCEPT
                           !.fid = fid, !.pre = files[fid].state]
       ELSE /\ last' = [Resp("delete-file", StatusNotFound) EXCEPT !.fid = fid]
            /\ UNCHANGED <<files, granted>>
    /\ UNCHANGED <<nodes, clock, pending>>
    /\ Spawn

\* a request body that does not decode as JSON, on the handlers that check
\* nothing else before touching the store
BadJson(op) ==
    /\ UNCHANGED <<lock, gw>>
    /\ UNCHANGED steps
    /\ last' = Resp(op, StatusBadRequest)
    /\ UNCHANGED <<nodes, files, clock, pending, granted>>
    /\ NoIO

(* ------------------------- list-nodes, metrics ----------------------- *)

\* the entries returned by handleListFiles; their order is the map's
\* iteration order, so they are held as a set
listFilesOut ==
    {[fileId |-> f, filename |-> files[f].filename, size |-> files[f].size,
      state |-> files[f].state, replicaCount |-> Len(files[f].replicas),
      createdAt |-> files[f].createdAt] : f \in DOMAIN files}

\* handleListFiles
ListFiles ==
    /\ Shared
    /\ UNCHANGED gw
    /\ UNCHANGED steps
    /\ last' = [Resp("list-files", StatusOK) EXCEPT !.view = listFilesOut]
    /\ UNCHANGED <<nodes, files, clock, pending, granted>>
    /\ NoIO

\* handleListNodes reporting the stored status field
listNodesStored ==
    {[nodeId |-> id, url |-> nodes[id].url, status |-> nodes[id].status,
      capacityBytes |-> nodes[id].capacityBytes, usedBytes |-> nodes[id].usedBytes,
      freeBytes |-> freeBytes(nodes[id]), lastSeenAt |-> nodes[id].lastSeenAt] :
        id \in DOMAIN nodes}

\* the entries returned by handleListNodes; their order is the map's
\* iteration order, so they are held as a set (loadFactor is left out)
listNodesOut ==
    {[nodeId |-> id, url |-> nodes[id].url, status |-> healthOf(nodes[id], clock),
      capacityBytes |-> nodes[id].capacityBytes, usedBytes |-> nodes[id].usedBytes,
      freeBytes |-> freeBytes(nodes[id]), lastSeenAt |-> nodes[id].lastSeenAt] :
        id \in DOMAIN nodes}

\* a handleListNodes that writes the status it computed back into the map
ListNodesStoresStatus ==
    /\ Shared
    /\ UNCHANGED gw
    /\ UNCHANGED steps
    /\ last' = [Resp("list-nodes", StatusOK) EXCEPT !.view = listNodesOut]
    /\ nodes' = [id \in DOMAIN nodes |->
                   [nodes[id] EXCEPT !.status = healthOf(nodes[id], clock)]]
    /\ UNCHANGED <<files, clock, pending, granted>>
    /\ NoIO

\* handleListNodes
ListNodes ==
    /\ Shared
    /\ UNCHANGED gw
    /\ UNCHANGED steps
    /\ last' = [Resp("list-nodes", StatusOK) EXCEPT !.view = listNodesOut]
    /\ UNCHANGED <<nodes, files, clock, pending, granted>>
    /\ NoIO

\* the node counters returned by handleMetrics
metricsOut ==
    [totalFiles |-> Cardinality(DOMAIN files),
     totalNodes |-> Cardinality(DOMAIN nodes),
     healthy |-> Cardinality({id \in DOMAIN nodes : healthOf(nodes[id], clock) = NodeHealthy}),
     suspect |-> Cardinality({id \in DOMAIN nodes : healthOf(nodes[id], clock) = NodeSuspect}),
     down |-> Cardinality({id \in DOMAIN nodes : healthOf(nodes[id], clock) = NodeDown})]

\* handleMetrics
Metrics ==
    /\ Shared
    /\ UNCHANGED gw
    /\ UNCHANGED steps
    /\ last' = [Resp("metrics", StatusOK) EXCEPT !.view = {metricsOut}]
    /\ UNCHANGED <<nodes, files, clock, pending, granted>>
    /\ NoIO

(* ------------------------ the gateway's upload ----------------------- *)

\* requiredWrites of handleUpload
RequiredWrites == 2

\* the write-quorum test of handleUpload with one accepted copy being enough
enoughWritesOne(Acc) == Cardinality(Acc) >= 1

\* the write-quorum test of handleUpload on the nodes that took the bytes
enoughWrites(Acc) == Cardinality(Acc) >= RequiredWrites

\* handleUpload, step 1: the gateway has the answer of its allocate call
\* and starts on the replicas it names
UploadAllocated ==
    /\ UNCHANGED steps
    /\ last.op = "allocate" /\ last.code = StatusOK
    /\ last.fid \notin DOMAIN gw
    /\ gw' = (last.fid :> [reps |-> {last.reps[i].nodeId : i \in 1..Len(last.reps)},
                           stage |-> "allocated"]) @@ gw
    /\ UNCHANGED <<nodes, files, clock, pending, last, granted, lock>>
    /\ NoIO

\* handleUpload, steps 2 and 3: the nodes in Acc took the bytes; below the
\* write quorum the gateway answers 502 and stops, otherwise it calls
\* commit with Acc, ignores what commit answers, and answers 200
UploadStore(fid, Acc) ==
    /\ Count
    /\ fid \in DOMAIN gw
    /\ gw[fid].stage = "allocated"
    /\ Acc \subseteq gw[fid].reps
    /\ IF ~enoughWrites(Acc)
       THEN /\ gw' = [gw EXCEPT ![fid].stage = "failed"]
            /\ last' = [Resp("upload", StatusBadGateway) EXCEPT !.fid = fid, !.up = Acc]
            /\ UNCHANGED <<files, lock>>
       ELSE /\ Exclusive
            /\ gw' = [gw EXCEPT ![fid].stage = "done"]
            /\ IF fid \in DOMAIN files
               THEN /\ files' = [files EXCEPT ![fid] = commitMeta(@, Acc, clock)]
                    /\ last' = [Saved("upload", StatusOK) EXCEPT
                                   !.fid = fid, !.up = Acc,
                                   !.state = files'[fid].state,
                                   !.pre = files[fid].state]
               ELSE /\ last' = [Resp("upload", StatusOK) EXCEPT !.fid = fid, !.up = Acc]
                    /\ UNCHANGED files
    /\ UNCHANGED <<nodes, clock, pending, granted>>
    /\ Spawn

(* ---------------------------- auto-healing --------------------------- *)

\* healthyCount of checkAndHealReplicas without the READY test
healthyCountAnyStatus(meta) ==
    Cardinality({i \in 1..Len(meta.replicas) :
        /\ meta.replicas[i].nodeId \in DOMAIN nodes
        /\ healthOf(nodes[meta.replicas[i].nodeId], clock) = NodeHealthy})

\* healthyCount of checkAndHealReplicas counting nothing for a PARTIAL file
healthyCountSkipsPartial(meta) ==
    IF meta.state = StatePartial THEN 0
    ELSE Cardinality({i \in 1..Len(meta.replicas) :
            /\ meta.replicas[i].nodeId \in DOMAIN nodes
            /\ healthOf(nodes[meta.replicas[i].nodeId], clock) = NodeHealthy
            /\ meta.replicas[i].status = ReplicaReady})

\* healthyCount of checkAndHealReplicas
healthyCount(meta) ==
    Cardinality({i \in 1..Len(meta.replicas) :
        /\ meta.replicas[i].nodeId \in DOMAIN nodes
        /\ healthOf(nodes[meta.replicas[i].nodeId], clock) = NodeHealthy
        /\ meta.replicas[i].status = ReplicaReady})

\* candidates of checkAndHealReplicas without the existingNodes test
healCandsAny(meta) ==
    {id \in DOMAIN nodes :
        /\ healthOf(nodes[id], clock) = NodeHealthy
        /\ freeBytes(nodes[id]) >= meta.size}

\* candidates of checkAndHealReplicas with existingNodes holding only the
\* nodes of READY replicas
healCandsSkipsReady(meta) ==
    {id \in DOMAIN nodes :
        /\ \A i \in 1..Len(meta.replicas) :
              meta.replicas[i].status = ReplicaReady => meta.replicas[i].nodeId # id
        /\ healthOf(nodes[id], clock) = NodeHealthy
        /\ freeBytes(nodes[id]) >= meta.size}

\* candidates of checkAndHealReplicas
healCands(meta) ==
    {id \in DOMAIN nodes :
        /\ \A i \in 1..Len(meta.replicas) : meta.replicas[i].nodeId # id
        /\ healthOf(nodes[id], clock) = NodeHealthy
        /\ freeBytes(nodes[id]) >= meta.size}

\* the entries checkAndHealReplicas builds from the sorted candidates q
healEntries(q, k) ==
    [i \in 1..k |-> [nodeId |-> q[i], url |-> nodes[q[i]].url,
                     status |-> ReplicaMissing, lastVerifiedAt |-> clock]]

\* one pass of checkAndHealReplicas putting the new entries in front
healMetaPrepends(meta) ==
    IF meta.state = StateDeleted \/ meta.state = StateAllocated THEN {meta}
    ELSE IF healthyCount(meta) >= RepFactor THEN {meta}
    ELSE LET needed == RepFactor - healthyCount(meta) IN
         IF Cardinality(healCands(meta)) < needed THEN {meta}
         ELSE {[meta EXCEPT
                  !.replicas = healEntries(q, needed) \o @,
                  !.state = IF @ = StateAvailable THEN StateDegraded ELSE @,
                  !.updatedAt = clock] :
               q \in healSorted(healCands(meta), needed)}

\* one pass of checkAndHealReplicas appending whatever candidates there are
healMetaPartial(meta) ==
    IF meta.state = StateDeleted \/ meta.state = StateAllocated THEN {meta}
    ELSE IF healthyCount(meta) >= RepFactor THEN {meta}
    ELSE LET needed == RepFactor - healthyCount(meta)
             k == IF Cardinality(healCands(meta)) < needed
                  THEN Cardinality(healCands(meta)) ELSE needed
         IN {[meta EXCEPT
                !.replicas = @ \o healEntries(q, k),
                !.state = IF @ = StateAvailable THEN StateDegraded ELSE @,
                !.updatedAt = clock] :
             q \in healSorted(healCands(meta), k)}

\* one pass of checkAndHealReplicas marking every file it extends DEGRADED
healMetaDegradesAny(meta) ==
    IF meta.state = StateDeleted \/ meta.state = StateAllocated THEN {meta}
    ELSE IF healthyCount(meta) >= RepFactor THEN {meta}
    ELSE LET needed == RepFactor - healthyCount(meta) IN
         IF Cardinality(healCands(meta)) < needed THEN {meta}
         ELSE {[meta EXCEPT
                  !.replicas = @ \o healEntries(q, needed),
                  !.state = StateDegraded,
                  !.updatedAt = clock] :
               q \in healSorted(healCands(meta), needed)}

\* the records one pass of checkAndHealReplicas can leave for one file
healMeta(meta) ==
    IF meta.state = StateDeleted \/ meta.state = StateAllocated THEN {meta}
    ELSE IF healthyCount(meta) >= RepFactor THEN {meta}
    ELSE LET needed == RepFactor - healthyCount(meta) IN
         IF Cardinality(healCands(meta)) < needed THEN {meta}
         ELSE {[meta EXCEPT
                  !.replicas = @ \o healEntries(q, needed),
                  !.state = IF @ = StateAvailable THEN StateDegraded ELSE @,
                  !.updatedAt = clock] :
               q \in healSorted(healCands(meta), needed)}

\* checkAndHealReplicas: one pass over all files under the write lock
Heal ==
    /\ Exclusive
    /\ UNCHANGED gw
    /\ Count
    /\ \E nf \in [DOMAIN files -> UNION {healMeta(files[f]) : f \in DOMAIN files}] :
          /\ \A f \in DOMAIN files : nf[f] \in healMeta(files[f])
          /\ files' = nf
    /\ last' = IF files' = files THEN Resp("heal", 0) ELSE Saved("heal", 0)
    /\ UNCHANGED <<nodes, clock, pending, granted>>
    /\ Spawn

(* -------------------------------- time ------------------------------- *)

Tick(d) ==
    /\ UNCHANGED <<lock, gw>>
    /\ Count
    /\ clock + d <= MaxClock
    /\ clock' = clock + d
    /\ UNCHANGED <<nodes, files, pending, last, granted>>
    /\ NoIO

(* ----------------------------- the system ---------------------------- *)

\* a file id no allocate of the run has produced
NoSuchFile == uuidLike("nofile", 0, 0)

\* the store operations and the passing of time
Next ==
    \/ \E id \in NodeIds, cap \in CapVals : RegisterNode(id, cap)
    \/ \E id \in NodeIds, used \in UsedVals : Heartbeat(id, used)
    \/ \E slot \in 1..MaxInflight, fn \in FileNames, size \in SizeVals,
          cs \in Checksums, sub \in SubNanos : AllocatePick(slot, fn, size, cs, sub)
    \/ \E slot \in 1..MaxInflight : AllocateInsert(slot)
    \/ \E fid \in DOMAIN files, U \in SUBSET NodeIds : Commit(fid, U)
    \/ \E fid \in DOMAIN files, n \in NodeIds : ReportMissing(fid, n)
    \/ \E fid \in DOMAIN files : DeleteFile(fid)
    \/ Heal
    \/ \E d \in TickSteps : Tick(d)

Spec == Init /\ [][Next]_vars

(* ---------------- the registry with rejected requests ---------------- *)

\* the registry after two heartbeats of a node it does not know
InitErr ==
    /\ lock = LockFree
    /\ gw = <<>>
    /\ nodes = <<>>
    /\ files = <<>>
    /\ clock = 0
    /\ pending = <<>>
    /\ last = [Resp("heartbeat", StatusNotFound) EXCEPT !.node = "A"]
    /\ granted = <<>>
    /\ steps = 2
    /\ tasks = NoTasks
    /\ disk = LoadedDisk
    /\ reads = <<>>

\* Next, and the requests the handlers reject
NextErr ==
    \/ Next
    \/ \E id \in {"", "A"}, url \in {"", "u"}, cap \in CapVals :
          RegisterNodeBad(id, url, cap)
    \/ \E fn \in FileNames, size \in SizeVals, cs \in Checksums :
          AllocateBad(fn, size, cs)
    \/ Commit(NoSuchFile, {})
    \/ ReportMissing(NoSuchFile, "A")
    \/ DeleteFile(NoSuchFile)
    \/ Lookup(NoSuchFile)
    \/ FileInfo(NoSuchFile)
    \/ \E op \in {"heartbeat", "commit", "report-missing", "delete-file"} : BadJson(op)

SpecErr == InitErr /\ [][NextErr]_vars

(* --------------------- placement on a given fleet -------------------- *)

PickNow == TDown + TSuspect
PickSeen == {PickNow, PickNow - TSuspect - 1, PickNow - TDown - 1}
PickChosen == {ZeroTime, TSuspect}
PickCaps == {2, 4}
PickSizes == {2, 3}

\* the records a registered node can have at PickNow
PickNodes(id) ==
    {[nodeId |-> id, url |-> UrlOf(id), capacityBytes |-> cap, usedBytes |-> used,
      status |-> NodeHealthy, lastSeenAt |-> seen, lastChosen |-> chosen] :
        cap \in PickCaps, used \in UsedVals, seen \in PickSeen, chosen \in PickChosen}

\* a registry holding any fleet of registered nodes and no file
InitPick ==
    /\ lock = LockFree
    /\ gw = <<>>
    /\ \E S \in SUBSET NodeIds :
          /\ nodes \in [S -> UNION {PickNodes(id) : id \in S}]
          /\ \A id \in S : nodes[id].nodeId = id
    /\ files = <<>>
    /\ clock = PickNow
    /\ pending = <<>>
    /\ last = Saved("register-node", StatusOK)
    /\ granted = <<>>
    /\ steps = MaxSteps - 2
    /\ tasks = NoTasks
    /\ disk = LoadedDisk
    /\ reads = <<>>

NextPick ==
    \/ \E slot \in 1..MaxInflight, size \in PickSizes, cs \in Checksums :
          AllocatePick(slot, "x", size, cs, 0)
    \/ \E slot \in 1..MaxInflight : AllocateInsert(slot)

SpecPick == InitPick /\ [][NextPick]_vars

(* ------------------ healing of a file that was placed ---------------- *)

HealNodeIds == NodeIds \cup {"D"}

\* the record of a node registered at time 0 with capacity 2
HealNode(id, chosen) ==
    [nodeId |-> id, url |-> UrlOf(id), capacityBytes |-> 2, usedBytes |-> 0,
     status |-> NodeHealthy, lastSeenAt |-> 0, lastChosen |-> chosen]

\* the record of the file placed on A and B at time 0
HealFile ==
    [fileId |-> uuidLike("x", 0, 0), filename |-> "x", size |-> 2,
     checksum |-> <<"sha256:", "ab">>, version |-> 1, state |-> StateAllocated,
     createdAt |-> 0, updatedAt |-> 0,
     replicas |-> [i \in 1..RepFactor |->
                     [nodeId |-> <<"A", "B">>[i], url |-> UrlOf(<<"A", "B">>[i]),
                      status |-> ReplicaReady, lastVerifiedAt |-> 0]]]

\* the registry at time 0 after A, B and some of C, D registered and one
\* allocate placed a file on A and B, possibly followed by its commit
InitHeal ==
    /\ lock = LockFree
    /\ gw = <<>>
    /\ \E S \in SUBSET {"C", "D"} :
          nodes = [id \in {"A", "B"} \cup S |->
                     HealNode(id, IF id \in {"A", "B"} THEN 0 ELSE ZeroTime)]
    /\ \E U \in {{}, {"A"}, {"A", "B"}} :
          files = (HealFile.fileId :> commitMeta(HealFile, U, 0))
    /\ clock = 0
    /\ pending = <<>>
    /\ last = Resp("heal", 0)
    /\ granted = (HealFile.fileId :> <<"A", "B">>)
    /\ steps = MaxSteps - 4
    /\ tasks = NoTasks
    /\ disk = LoadedDisk
    /\ reads = <<>>

NextHeal ==
    \/ \E id \in HealNodeIds, cap \in CapVals : RegisterNode(id, cap)
    \/ \E id \in HealNodeIds, used \in UsedVals : Heartbeat(id, used)
    \/ \E fid \in DOMAIN files : \E U \in {{"A"}, ReplicaIds(files[fid])} : Commit(fid, U)
    \/ \E fid \in DOMAIN files, n \in HealNodeIds : ReportMissing(fid, n)
    \/ \E fid \in DOMAIN files : Lookup(fid)
    \/ Heal
    \/ \E d \in TickSteps : Tick(d)

SpecHeal == InitHeal /\ [][NextHeal]_vars

\* the same registry when no repair worker exists: nothing commits
NextNoRepair ==
    \/ \E id \in HealNodeIds, cap \in CapVals : RegisterNode(id, cap)
    \/ \E id \in HealNodeIds, used \in UsedVals : Heartbeat(id, used)
    \/ \E fid \in DOMAIN files, n \in HealNodeIds : ReportMissing(fid, n)
    \/ Heal
    \/ \E d \in TickSteps : Tick(d)

SpecNoRepair == InitHeal /\ [][NextNoRepair]_vars

(* ------------------ a registry started from a snapshot --------------- *)

LoadClocks == {0, TSuspect + 1}

\* Store.load: files.json holds the file placed on A and B, nodes.json
\* holds any part of the fleet or is missing; the nodes were last seen at 0
InitLoad ==
    /\ lock = LockFree
    /\ gw = <<>>
    /\ \E S \in SUBSET NodeIds : nodes = [id \in S |-> HealNode(id, ZeroTime)]
    /\ \E U \in {{}, {"A"}, {"A", "B"}} :
          files = (HealFile.fileId :> commitMeta(HealFile, U, 0))
    /\ clock \in LoadClocks
    /\ pending = <<>>
    /\ last = NoResp
    /\ granted = <<>>
    /\ steps = MaxSteps - 3
    /\ tasks = NoTasks
    /\ disk = LoadedDisk
    /\ reads = <<>>

NextLoad ==
    \/ \E id \in NodeIds, cap \in CapVals : RegisterNode(id, cap)
    \/ \E id \in NodeIds, used \in UsedVals : Heartbeat(id, used)
    \/ \E fid \in DOMAIN files, n \in NodeIds : ReportMissing(fid, n)
    \/ \E fid \in DOMAIN files : Lookup(fid)
    \/ Heal

SpecLoad == InitLoad /\ [][NextLoad]_vars

(* ------------------ node status on a fleet of any age ---------------- *)

NodeAges == {0, TSuspect, TSuspect + 1, TDown, TDown + 1}
HbUsed == {-2, 0, 2}

\* the records a node registered with capacity 4 can have at PickNow
AgedNodes(id) ==
    {[nodeId |-> id, url |-> UrlOf(id), capacityBytes |-> 4, usedBytes |-> 0,
      status |-> NodeHealthy, lastSeenAt |-> PickNow - age,
      lastChosen |-> IF id \in {"A", "B"} THEN 0 ELSE ZeroTime] : age \in NodeAges}

\* the registry at PickNow: A and B hold the file placed and committed at
\* time 0, C may have registered, and each node sent its last heartbeat
\* some time ago
InitNode ==
    /\ lock = LockFree
    /\ gw = <<>>
    /\ \E S \in SUBSET {"C"} :
          /\ nodes \in [{"A", "B"} \cup S -> UNION {AgedNodes(id) : id \in NodeIds}]
          /\ \A id \in DOMAIN nodes : nodes[id].nodeId = id
    /\ files = (HealFile.fileId :> commitMeta(HealFile, {"A", "B"}, 0))
    /\ clock = PickNow
    /\ pending = <<>>
    /\ last = NoResp
    /\ granted = (HealFile.fileId :> <<"A", "B">>)
    /\ steps = MaxSteps - 3
    /\ tasks = NoTasks
    /\ disk = LoadedDisk
    /\ reads = <<>>

NextNode ==
    \/ \E id \in NodeIds, cap \in CapVals : RegisterNode(id, cap)
    \/ \E id \in NodeIds, used \in HbUsed : Heartbeat(id, used)
    \/ ListNodes
    \/ Metrics
    \/ \E fid \in DOMAIN files : Lookup(fid)
    \/ \E slot \in 1..MaxInflight, cs \in Checksums :
          AllocatePick(slot, "x", 2, cs, 1)
    \/ \E slot \in 1..MaxInflight : AllocateInsert(slot)
    \/ Heal

SpecNode == InitNode /\ [][NextNode]_vars

(* ------------------------- deletion of a file ------------------------ *)

\* the record of a second file placed on A and B at time 0
OtherFile ==
    [HealFile EXCEPT !.fileId = uuidLike("x", 0, 1)]

DelFids == {HealFile.fileId, OtherFile.fileId}

\* the registry at time 0 after A, B, C registered and two allocates placed
\* a file each on A and B, each possibly followed by its commit
InitDelete ==
    /\ lock = LockFree
    /\ gw = <<>>
    /\ nodes = [id \in NodeIds |->
                  HealNode(id, IF id \in {"A", "B"} THEN 0 ELSE ZeroTime)]
    /\ \E U1 \in {{}, {"A", "B"}}, U2 \in {{}, {"A", "B"}} :
          files = (HealFile.fileId :> commitMeta(HealFile, U1, 0))
                  @@ (OtherFile.fileId :> commitMeta(OtherFile, U2, 0))
    /\ clock = 0
    /\ pending = <<>>
    /\ last = NoResp
    /\ granted = (HealFile.fileId :> <<"A", "B">>)
                 @@ (OtherFile.fileId :> <<"A", "B">>)
    /\ steps = MaxSteps - 3
    /\ tasks = NoTasks
    /\ disk = LoadedDisk
    /\ reads = <<>>

\* the operations that name a file, on the two files whether they are still
\* in the map or not; no allocate runs, so an absent file is a deleted one
NextDelete ==
    \/ \E id \in NodeIds, used \in UsedVals : Heartbeat(id, used)
    \/ \E fid \in DelFids : DeleteFile(fid)
    \/ \E fid \in DelFids, U \in {{"A"}, {"A", "B"}} : Commit(fid, U)
    \/ \E fid \in DelFids, n \in {"A", "B"} : ReportMissing(fid, n)
    \/ \E fid \in DelFids : Lookup(fid)
    \/ \E fid \in DelFids : FileInfo(fid)
    \/ Heal
    \/ \E d \in TickSteps : Tick(d)

SpecDelete == InitDelete /\ [][NextDelete]_vars

(* ------------- a snapshot that holds a soft-deleted file ------------- *)

\* Store.load: files.json holds the file placed on A and B with state
\* DELETED, nodes.json holds the fleet; the nodes were last seen at 0
InitDeleted ==
    /\ lock = LockFree
    /\ gw = <<>>
    /\ nodes = [id \in NodeIds |->
                  HealNode(id, IF id \in {"A", "B"} THEN 0 ELSE ZeroTime)]
    /\ \E U \in {{}, {"A"}, {"A", "B"}} :
          files = (HealFile.fileId :>
                     [commitMeta(HealFile, U, 0) EXCEPT !.state = StateDeleted])
    /\ clock \in LoadClocks
    /\ pending = <<>>
    /\ last = NoResp
    /\ granted = <<>>
    /\ steps = MaxSteps - 3
    /\ tasks = NoTasks
    /\ disk = LoadedDisk
    /\ reads = <<>>

NextDeleted ==
    \/ \E id \in NodeIds, used \in UsedVals : Heartbeat(id, used)
    \/ \E fid \in DOMAIN files, U \in SUBSET {"A", "B"} : Commit(fid, U)
    \/ \E fid \in DOMAIN files, n \in NodeIds : ReportMissing(fid, n)
    \/ Heal
    \/ \E d \in TickSteps : Tick(d)

SpecDeleted == InitDeleted /\ [][NextDeleted]_vars

(* ------------------------- the read operations ----------------------- *)

\* the registry started from a snapshot, with the five read operations
\* between its mutations
NextRead ==
    \/ \E id \in NodeIds, cap \in CapVals : RegisterNode(id, cap)
    \/ \E id \in NodeIds, used \in UsedVals : Heartbeat(id, used)
    \/ \E fid \in DOMAIN files, U \in {{"A"}, {"A", "B"}} : Commit(fid, U)
    \/ \E fid \in DOMAIN files, n \in NodeIds : ReportMissing(fid, n)
    \/ \E fid \in DOMAIN files : DeleteFile(fid)
    \/ Heal
    \/ \E d \in TickSteps : Tick(d)
    \/ ListFiles
    \/ ListNodes
    \/ Metrics
    \/ \E fid \in DelFids : Lookup(fid)
    \/ \E fid \in DelFids : FileInfo(fid)

SpecRead == InitLoad /\ [][NextRead]_vars

(* ---------------- a commit and the reads that follow it -------------- *)

\* the placed file under commits that answer before they unlock, with
\* lookups and file-infos issued at any moment
NextCommitRead ==
    \/ \E id \in NodeIds, used \in UsedVals : Heartbeat(id, used)
    \/ \E fid \in DOMAIN files, U \in SUBSET {"A", "B"} : CommitRespond(fid, U)
    \/ CommitUnlock
    \/ \E fid \in DOMAIN files, n \in {"A", "B"} : ReportMissing(fid, n)
    \/ \E fid \in DOMAIN files : Lookup(fid)
    \/ \E fid \in DOMAIN files : FileInfo(fid)
    \/ Heal
    \/ \E d \in TickSteps : Tick(d)

SpecCommitRead == InitHeal /\ [][NextCommitRead]_vars

(* ----------------------- uploads through the gateway ---------------- *)

UploadSubs == 0..2

\* the registry at time 0 after A, B and C registered
InitUpload ==
    /\ lock = LockFree
    /\ gw = <<>>
    /\ nodes = [id \in NodeIds |-> HealNode(id, ZeroTime)]
    /\ files = <<>>
    /\ clock = 0
    /\ pending = <<>>
    /\ last = Saved("register-node", StatusOK)
    /\ granted = <<>>
    /\ steps = MaxSteps - 5
    /\ tasks = NoTasks
    /\ disk = LoadedDisk
    /\ reads = <<>>

\* every allocate and every commit comes from an upload of the gateway;
\* the allocates run at different nanoseconds, so no fileId comes twice
NextUpload ==
    \/ \E id \in NodeIds, used \in UsedVals : Heartbeat(id, used)
    \/ \E slot \in 1..MaxInflight, sub \in UploadSubs :
          /\ uuidLike("x", clock, sub) \notin
                DOMAIN files \cup DOMAIN gw \cup {pending[s].fileId : s \in DOMAIN pending}
          /\ AllocatePick(slot, "x", 2, <<"sha256:", "ab">>, sub)
    \/ \E slot \in 1..MaxInflight : AllocateInsert(slot)
    \/ UploadAllocated
    \/ \E fid \in DOMAIN gw : \E Acc \in SUBSET gw[fid].reps : UploadStore(fid, Acc)
    \/ \E fid \in DOMAIN files, n \in NodeIds : ReportMissing(fid, n)
    \/ \E fid \in DOMAIN files : DeleteFile(fid)
    \/ Heal
    \/ \E d \in TickSteps : Tick(d)

SpecUpload == InitUpload /\ [][NextUpload]_vars

(* ------------- every mutation on the registry with a file ------------ *)

\* the registry with the placed file under all seven mutations
NextFrame ==
    \/ \E id \in HealNodeIds, cap \in CapVals : RegisterNode(id, cap)
    \/ \E id \in HealNodeIds, used \in UsedVals : Heartbeat(id, used)
    \/ \E slot \in 1..MaxInflight : AllocatePick(slot, "x", 2, <<"sha256:", "ab">>, 1)
    \/ \E slot \in 1..MaxInflight : AllocateInsert(slot)
    \/ \E fid \in DOMAIN files : \E U \in {{"A"}, ReplicaIds(files[fid])} : Commit(fid, U)
    \/ \E fid \in DOMAIN files, n \in {"A", "B"} : ReportMissing(fid, n)
    \/ \E fid \in DOMAIN files : DeleteFile(fid)
    \/ Heal
    \/ \E d \in TickSteps : Tick(d)

SpecFrame == InitHeal /\ [][NextFrame]_vars

(* ------------------------ snapshot goroutines ------------------------ *)

\* the registry of InitHeal with A and B only, loaded from its data
\* directory, with room for as many store operations as goroutines
InitPersist ==
    /\ lock = LockFree
    /\ gw = <<>>
    /\ nodes = [id \in {"A", "B"} |-> HealNode(id, 0)]
    /\ \E U \in {{}, {"A", "B"}} :
          files = (HealFile.fileId :> commitMeta(HealFile, U, 0))
    /\ clock = 0
    /\ pending = <<>>
    /\ last = Resp("heal", 0)
    /\ granted = (HealFile.fileId :> <<"A", "B">>)
    /\ steps = MaxSteps - MaxTasks
    /\ tasks = NoTasks
    /\ disk = LoadedDisk
    /\ reads = <<>>

NextPersist ==
    \/ \E id \in {"A", "C"}, cap \in CapVals : RegisterNode(id, cap)
    \/ \E id \in {"A", "B"}, used \in UsedVals : Heartbeat(id, used)
    \/ \E fid \in DOMAIN files : \E U \in {{"A"}, ReplicaIds(files[fid])} : Commit(fid, U)
    \/ \E fid \in DOMAIN files, n \in {"A", "B"} : ReportMissing(fid, n)
    \/ \E fid \in DOMAIN files : DeleteFile(fid)
    \/ Heal
    \/ \E d \in TickSteps : Tick(d)
    \/ PersistBegin
    \/ \E t \in 1..MaxTasks : PersistOpen(t)
    \/ \E t \in 1..MaxTasks : PersistWrite(t)
    \/ \E t \in 1..MaxTasks : PersistRename(t)

SpecPersist == InitPersist /\ [][NextPersist]_vars

(* ----------------- file-info beside the writers ---------------------- *)

NextRace ==
    \/ \E id \in HealNodeIds, used \in UsedVals : Heartbeat(id, used)
    \/ \E fid \in DOMAIN files : \E U \in {{"A"}, ReplicaIds(files[fid])} : Commit(fid, U)
    \/ \E fid \in DOMAIN files, n \in {"A", "B"} : ReportMissing(fid, n)
    \/ Heal
    \/ \E fid \in DOMAIN files : Lookup(fid)
    \/ \E fid \in DOMAIN files : FileInfoFetch(fid)
    \/ \E fid \in DOMAIN files : FileInfoReadReplicas(fid)
    \/ \E fid \in DOMAIN files : FileInfoRespond(fid)
    \/ \E d \in TickSteps : Tick(d)

SpecRace == InitPersist /\ [][NextRace]_vars

(* ------------------- storage nodes that keep running ----------------- *)

\* every storage node has run registerToNaming once and its ticker is
\* started; the registry knows the nodes whose registration arrived and
\* that it did not lose by a restart without nodes.json
InitBeat ==
    /\ lock = LockFree
    /\ gw = <<>>
    /\ \E S \in SUBSET NodeIds : nodes = [id \in S |-> HealNode(id, ZeroTime)]
    /\ files = <<>>
    /\ clock = 0
    /\ pending = <<>>
    /\ last = NoResp
    /\ granted = <<>>
    /\ steps = 0
    /\ tasks = NoTasks
    /\ disk = LoadedDisk
    /\ reads = <<>>

\* handleHeartbeat for one firing of a node's ticker, which never stops:
\* the step is not counted in the run length
Beat(id, used) ==
    /\ Exclusive
    /\ UNCHANGED <<gw, steps>>
    /\ IF id \in DOMAIN nodes
       THEN LET seen == [nodes[id] EXCEPT !.usedBytes = used, !.lastSeenAt = clock]
                n == [seen EXCEPT !.status = healthOf(seen, clock)]
            IN /\ nodes' = [nodes EXCEPT ![id] = n]
               /\ last' = [Saved("heartbeat", StatusOK) EXCEPT
                              !.node = id, !.size = used, !.state = n.status]
       ELSE /\ last' = [Resp("heartbeat", StatusNotFound) EXCEPT !.node = id, !.size = used]
            /\ UNCHANGED nodes
    /\ UNCHANGED <<files, clock, pending, granted>>
    /\ Spawn

\* startHeartbeat of each node: the ticker posts a heartbeat and drops
\* whatever the registry answers
NextBeat ==
    \/ \E id \in NodeIds, used \in UsedVals : Beat(id, used)
    \/ \E d \in TickSteps : Tick(d)

\* the ticker of every node keeps firing
SpecBeat ==
    /\ InitBeat
    /\ [][NextBeat]_vars
    /\ \A id \in NodeIds : WF_vars(\E used \in UsedVals : Beat(id, used))

(* ============================== properties =========================== *)

ReadyCount(meta) ==
    Cardinality({i \in 1..Len(meta.replicas) : meta.replicas[i].status = ReplicaReady})

\* C1: every file in state AVAILABLE has at least RepFactor replicas with
\* status READY, in every reachable state of the registry.
C1_AvailableHasReadyReplicas ==
    \A f \in DOMAIN files :
        files[f].state = StateAvailable => ReadyCount(files[f]) >= RepFactor

\* an AVAILABLE file that went through a report-missing and stayed AVAILABLE
C1_Witness ==
    /\ last.op = "report-missing" /\ last.code = StatusOK
    /\ last.fid \in DOMAIN files
    /\ files[last.fid].state = StateAvailable
    /\ last.pre = StateAvailable

\* C2: after a successful commit(fileId, U) the stored state is decided by
\* k = number of replicas whose nodeId is in U alone (0 -> ALLOCATED,
\* 0 < k < R -> PARTIAL, k >= R -> AVAILABLE), every replica whose nodeId is
\* in U is READY, and the returned state is the stored state.
C2_CommitStateFromCount ==
    (last.op = "commit" /\ last.code = StatusOK) =>
        LET m == files[last.fid]
            k == Cardinality({i \in 1..Len(m.replicas) : m.replicas[i].nodeId \in last.up})
        IN /\ k = 0 => m.state = StateAllocated
           /\ (0 < k /\ k < RepFactor) => m.state = StatePartial
           /\ k >= RepFactor => m.state = StateAvailable
           /\ \A i \in 1..Len(m.replicas) :
                 m.replicas[i].nodeId \in last.up => m.replicas[i].status = ReplicaReady
           /\ last.state = m.state

\* a commit that moved a file out of AVAILABLE or DEGRADED
C2_Witness ==
    /\ last.op = "commit" /\ last.code = StatusOK
    /\ last.pre \in {StateAvailable, StateDegraded}
    /\ last.state \in {StateAllocated, StatePartial}

\* the step is a handleCommit, handleReportMissing, ... that answered: the
\* steps that leave last alone (a tick, a successful pick) are excluded
Answered(op, code) ==
    /\ last'.op = op /\ last'.code = code
    /\ clock' = clock /\ pending' = pending /\ steps' # steps

\* C3: a successful commit(fileId, U) leaves every replica whose nodeId is
\* not in U unchanged (status and lastVerifiedAt), keeps the replica list's
\* length, order, nodeIds and urls, and changes no other file and no node.
C3_CommitFrame ==
    [][Answered("commit", StatusOK) =>
         LET f == last'.fid
             old == files[f].replicas
             new == files'[f].replicas
         IN /\ nodes' = nodes
            /\ DOMAIN files' = DOMAIN files
            /\ \A g \in DOMAIN files \ {f} : files'[g] = files[g]
            /\ Len(new) = Len(old)
            /\ \A i \in 1..Len(old) :
                  /\ new[i].nodeId = old[i].nodeId
                  /\ new[i].url = old[i].url
                  /\ old[i].nodeId \notin last'.up => new[i] = old[i]]_vars

\* a commit that left a MISSING replica outside its uploaded set in place
C3_Witness ==
    /\ last.op = "commit" /\ last.code = StatusOK
    /\ \E i \in 1..Len(files[last.fid].replicas) :
          /\ files[last.fid].replicas[i].nodeId \notin last.up
          /\ files[last.fid].replicas[i].status = ReplicaMissing

\* C4: a commit naming all the nodes returned by the allocate that created
\* the record (no delete-file of that fileId in between) yields AVAILABLE,
\* whatever heartbeats, heal passes, report-missing calls, ticks or other
\* files' operations ran in between.
C4_AllocateThenFullCommit ==
    (/\ last.op = "commit" /\ last.code = StatusOK
     /\ last.fid \in DOMAIN granted
     /\ Range(granted[last.fid]) \subseteq last.up) =>
        /\ last.state = StateAvailable
        /\ files[last.fid].state = StateAvailable

\* such a commit that came after time passed and a granted node stopped
\* being HEALTHY
C4_Witness ==
    /\ last.op = "commit" /\ last.code = StatusOK
    /\ last.fid \in DOMAIN granted
    /\ Range(granted[last.fid]) = last.up
    /\ last.state = StateAvailable
    /\ \E n \in last.up : clock - nodes[n].lastSeenAt > TSuspect

\* C5: a commit(fileId, U) repeated right after a successful commit(fileId, U)
\* leaves the file state and every replica status as the first one left
\* them and returns the same state.
C5_CommitIdempotent ==
    [][(Answered("commit", StatusOK) /\ last'.again) =>
         LET f == last'.fid IN
         /\ files'[f].state = files[f].state
         /\ Len(files'[f].replicas) = Len(files[f].replicas)
         /\ \A i \in 1..Len(files[f].replicas) :
               files'[f].replicas[i].status = files[f].replicas[i].status
         /\ last'.state = last.state]_vars

\* a repeated commit on a file that another replica keeps below AVAILABLE
C5_Witness ==
    /\ last.op = "commit" /\ last.code = StatusOK /\ last.again
    /\ last.state = StatePartial
    /\ last.up # {}

\* C6: a successful report-missing(fileId, n) sets exactly the replicas with
\* nodeId n to MISSING and changes no other replica; the state becomes
\* DEGRADED when it was AVAILABLE and some replica is now not READY, and is
\* unchanged otherwise.
C6_ReportMissing ==
    [][Answered("report-missing", StatusOK) =>
         LET f == last'.fid
             n == last'.node
             old == files[f]
             new == files'[f]
         IN /\ Len(new.replicas) = Len(old.replicas)
            /\ \A i \in 1..Len(old.replicas) :
                  IF old.replicas[i].nodeId = n
                  THEN new.replicas[i] = [old.replicas[i] EXCEPT !.status = ReplicaMissing]
                  ELSE new.replicas[i] = old.replicas[i]
            /\ new.state =
                  IF /\ old.state = StateAvailable
                     /\ \E i \in 1..Len(new.replicas) :
                           new.replicas[i].status # ReplicaReady
                  THEN StateDegraded ELSE old.state
            /\ last'.state = new.state]_vars

\* a report-missing on a PARTIAL file that marked a replica and left PARTIAL
C6_Witness ==
    /\ last.op = "report-missing" /\ last.code = StatusOK
    /\ last.pre = StatePartial
    /\ files[last.fid].state = StatePartial
    /\ \E i \in 1..Len(files[last.fid].replicas) :
          /\ files[last.fid].replicas[i].nodeId = last.node
          /\ files[last.fid].replicas[i].status = ReplicaMissing

\* node n is HEALTHY and has room for size bytes
Eligible(n, size) ==
    /\ n \in DOMAIN nodes
    /\ clock - nodes[n].lastSeenAt <= TSuspect
    /\ nodes[n].capacityBytes - nodes[n].usedBytes >= size

\* usedBytes/capacityBytes of c is strictly below that of n (capacities > 0)
LoadBelow(c, n) ==
    nodes[c].usedBytes * nodes[n].capacityBytes
        < nodes[n].usedBytes * nodes[c].capacityBytes

\* c is strictly better placed than n: lower load, or equal load and an
\* older lastChosen
Better(c, n) ==
    \/ LoadBelow(c, n)
    \/ ~LoadBelow(n, c) /\ nodes[c].lastChosen < nodes[n].lastChosen

\* C7: the placement scan of a successful allocate(size S) picks exactly R
\* pairwise-distinct nodes, each HEALTHY with capacityBytes - usedBytes >= S
\* in the scanned map, and no unselected candidate is better placed than a
\* selected node (lower load factor, or equal load factor and older
\* lastChosen); the allocate returns exactly the picked nodes.
C7_PlacementMinimal ==
    [][/\ \A s \in DOMAIN pending' \ DOMAIN pending :
            LET m == pending'[s]
                sel == ReplicaIds(m)
            IN /\ Len(m.replicas) = RepFactor
               /\ Cardinality(sel) = RepFactor
               /\ \A n \in sel : Eligible(n, m.size)
               /\ \A c \in DOMAIN nodes \ sel :
                     Eligible(c, m.size) => \A n \in sel : ~Better(c, n)
       /\ \A s \in DOMAIN pending \ DOMAIN pending' :
            /\ last'.op = "allocate" /\ last'.code = StatusOK
            /\ Len(last'.reps) = RepFactor
            /\ \A i \in 1..RepFactor :
                  last'.reps[i].nodeId = pending[s].replicas[i].nodeId]_vars

\* a pick that took a node whose free space equals the size and left out a
\* candidate with a higher load factor
C7_Witness ==
    \E s \in DOMAIN pending :
        LET m == pending[s]
            sel == ReplicaIds(m)
        IN /\ \E n \in sel : nodes[n].capacityBytes - nodes[n].usedBytes = m.size
           /\ \E c \in DOMAIN nodes \ sel :
                 /\ Eligible(c, m.size)
                 /\ \E n \in sel : LoadBelow(n, c)

\* the number of nodes that are HEALTHY with room for size bytes
EligibleCount(size) == Cardinality({n \in DOMAIN nodes : Eligible(n, size)})

\* C8: a well-formed allocate is answered 409 exactly when fewer than R
\* nodes are HEALTHY with freeBytes >= size at the placement scan.
C8_ConflictIffTooFew ==
    [][/\ (/\ last'.op = "allocate" /\ last'.code = StatusConflict
            /\ steps' # steps /\ pending' = pending)
           => EligibleCount(last'.size) < RepFactor
       /\ \A s \in DOMAIN pending' \ DOMAIN pending :
            EligibleCount(pending'[s].size) >= RepFactor]_vars

\* a 409 on a registry whose single registered node is HEALTHY with room
C8_Witness ==
    /\ last.op = "allocate" /\ last.code = StatusConflict
    /\ Cardinality(DOMAIN nodes) = 1
    /\ EligibleCount(last.size) = 1

\* C9: an operation answered with an error (400, 404, 409) leaves the files
\* map and the nodes map exactly as they were. A step that answers is one
\* that keeps the clock and the allocations in flight and sets last.
C9_ErrorsChangeNothing ==
    [][(/\ last'.code >= StatusBadRequest
        /\ clock' = clock /\ pending' = pending) =>
          (files' = files /\ nodes' = nodes)]_vars

\* a 404 answered by a registry that holds files and nodes
C9_Witness ==
    /\ last.code = StatusNotFound
    /\ last.op = "commit"
    /\ DOMAIN files # {}

\* the number of READY replicas of meta hosted on a node seen at most
\* TSuspect seconds ago
HealthyReady(meta) ==
    Cardinality({i \in 1..Len(meta.replicas) :
        /\ meta.replicas[i].status = ReplicaReady
        /\ meta.replicas[i].nodeId \in DOMAIN nodes
        /\ clock - nodes[meta.replicas[i].nodeId].lastSeenAt <= TSuspect})

\* the nodes a heal pass may add to meta: HEALTHY, room for the file, not
\* yet in its replica list
HealCandidates(meta) ==
    {n \in DOMAIN nodes : Eligible(n, meta.size) /\ n \notin ReplicaIds(meta)}

\* meta is a file the heal pass looks at and finds under-replicated
NeedsHeal(meta) ==
    /\ meta.state \notin {StateAllocated, StateDeleted}
    /\ HealthyReady(meta) < RepFactor

\* C11: in every reachable state the nodeIds of one file's replica list
\* are pairwise distinct, whatever heal passes, re-registrations, commits
\* and report-missing calls ran.
C11_ReplicaNodesDistinct ==
    \A f \in DOMAIN files :
        \A i, j \in 1..Len(files[f].replicas) :
            i # j => files[f].replicas[i].nodeId # files[f].replicas[j].nodeId

\* a file that a heal pass extended and whose added node registered again
C11_Witness ==
    /\ last.op = "register-node" /\ last.code = StatusOK
    /\ \E f \in DOMAIN files :
          /\ Len(files[f].replicas) > RepFactor
          /\ files[f].replicas[Len(files[f].replicas)].nodeId = last.node

\* C12: a heal pass keeps every file and, for every file, the replica list
\* before the pass is a prefix of the list after it.
C12_HealAppendsOnly ==
    [][Answered("heal", 0) =>
         /\ DOMAIN files' = DOMAIN files
         /\ \A f \in DOMAIN files :
               /\ Len(files'[f].replicas) >= Len(files[f].replicas)
               /\ \A i \in 1..Len(files[f].replicas) :
                     files'[f].replicas[i] = files[f].replicas[i]]_vars

\* a heal pass that extended a list holding a MISSING entry
C12_Witness ==
    /\ last.op = "heal"
    /\ \E f \in DOMAIN files :
          /\ Len(files[f].replicas) > RepFactor
          /\ \E i \in 1..RepFactor : files[f].replicas[i].status = ReplicaMissing

C14_HealTooFewCandidates ==
    [][Answered("heal", 0) =>
         \A f \in DOMAIN files :
            (/\ NeedsHeal(files[f])
             /\ Cardinality(HealCandidates(files[f]))
                   < RepFactor - HealthyReady(files[f]))
               => files'[f] = files[f]]_vars

\* after a heal pass, a file that needs two entries while one candidate
\* exists
C14_Witness ==
    /\ last.op = "heal"
    /\ \E f \in DOMAIN files :
          /\ NeedsHeal(files[f])
          /\ HealthyReady(files[f]) = 0
          /\ Cardinality(HealCandidates(files[f])) = 1
          /\ Len(files[f].replicas) = RepFactor

\* C15 as stated: with no commit after healing, a heal pass appends nothing
\* to a file that an earlier pass already extended.
C15_HealAppendsOnOneTick ==
    [][Answered("heal", 0) =>
         \A f \in DOMAIN files :
            Len(files[f].replicas) > RepFactor =>
               Len(files'[f].replicas) = Len(files[f].replicas)]_vars

\* C15, amended: with no commit after healing, a heal pass appends to a
\* file only nodes that are not in its replica list, so a node is appended
\* at most once per file and the list never outgrows the registered nodes;
\* the passes keep appending as long as candidates outside the list remain.
C15_HealAppendsEachNodeOnce ==
    [][Answered("heal", 0) =>
         \A f \in DOMAIN files :
            /\ \A i \in 1..Len(files'[f].replicas) :
                  i > Len(files[f].replicas) =>
                     files'[f].replicas[i].nodeId \notin ReplicaIds(files[f])
            /\ Len(files'[f].replicas) <= Cardinality(DOMAIN nodes)]_vars

\* a file extended by two heal passes, one node each
C15_Witness ==
    /\ last.op = "heal"
    /\ \E f \in DOMAIN files :
          /\ Len(files[f].replicas) = RepFactor + 2
          /\ \A i \in 1..Len(files[f].replicas) :
                i > RepFactor => files[f].replicas[i].status = ReplicaMissing
          /\ HealthyReady(files[f]) = 1

\* out lists every entry of reps once as (nodeId, url): entry i stands at
\* the place given by the number of entries up to i in its own group, the
\* group of the entries on nodes present in the map and seen at most
\* TSuspect seconds ago coming first
HealthyFirst(reps, out) ==
    LET H(i) == /\ reps[i].nodeId \in DOMAIN nodes
                /\ clock - nodes[reps[i].nodeId].lastSeenAt <= TSuspect
        hs == {i \in 1..Len(reps) : H(i)}
        pos(i) == IF H(i)
                  THEN Cardinality({j \in hs : j <= i})
                  ELSE Cardinality(hs)
                         + Cardinality({j \in 1..Len(reps) : j <= i /\ ~H(j)})
    IN /\ Len(out) = Len(reps)
       /\ \A i \in 1..Len(reps) :
             out[pos(i)] = [nodeId |-> reps[i].nodeId, url |-> reps[i].url]

\* a step that completes a lookup with a response
LookupAnswered ==
    /\ last'.op = "lookup" /\ last'.code = StatusOK
    /\ clock' = clock /\ pending' = pending

HasAbsentNode(meta) ==
    \E i \in 1..Len(meta.replicas) : meta.replicas[i].nodeId \notin DOMAIN nodes

\* C17: a replica whose nodeId is not in the nodes map counts as hosted on
\* a non-HEALTHY node: a heal pass does not count it as healthy (it appends
\* need = R - healthy entries when the file needs healing and the candidates
\* suffice, and nothing otherwise), and a lookup of such a file completes
\* with status 200 and lists that replica among the others.
C17_AbsentNodeIsNotHealthy ==
    [][/\ Answered("heal", 0) =>
            \A f \in DOMAIN files :
               HasAbsentNode(files[f]) =>
                  Len(files'[f].replicas) - Len(files[f].replicas) =
                     IF /\ NeedsHeal(files[f])
                        /\ Cardinality(HealCandidates(files[f]))
                              >= RepFactor - HealthyReady(files[f])
                     THEN RepFactor - HealthyReady(files[f]) ELSE 0
       /\ (/\ last'.op = "lookup" /\ last'.fid \in DOMAIN files
            /\ clock' = clock /\ pending' = pending
            /\ HasAbsentNode(files[last'.fid])) =>
               /\ last'.code = StatusOK
               /\ HealthyFirst(files[last'.fid].replicas, last'.reps)]_vars

\* the status the age of a heartbeat stands for
AgeStatus(age) ==
    IF age <= TSuspect THEN NodeHealthy
    ELSE IF age <= TDown THEN NodeSuspect
    ELSE NodeDown

\* the status of node id by the age of its last heartbeat
StatusNow(id) == AgeStatus(clock - nodes[id].lastSeenAt)

C19_RegisterThenHeartbeat ==
    [][/\ Answered("heartbeat", StatusOK) =>
            /\ nodes'[last'.node].usedBytes = last'.size
            /\ clock' - nodes'[last'.node].lastSeenAt <= TSuspect
       /\ Answered("register-node", StatusOK) =>
            nodes'[last'.node].usedBytes = 0]_vars

\* a heartbeat with usedBytes 2 for a node that registered again with
\* capacity 2 after the fleet was set up with capacity 4
C19_Witness ==
    /\ last.op = "heartbeat" /\ last.code = StatusOK
    /\ last.size = 2
    /\ nodes[last.node].capacityBytes = 2
    /\ nodes[last.node].usedBytes = 2

\* C20: after a mutation that returned success every node record has
\* 0 <= usedBytes and capacityBytes > 0.
C20_NodeInvariants ==
    last.code = StatusOK =>
        \A id \in DOMAIN nodes :
            nodes[id].usedBytes >= 0 /\ nodes[id].capacityBytes > 0

\* C10: right after a successful allocate of size S, every node of the
\* returned placement has capacityBytes - usedBytes >= S in the registry
\* state that holds the inserted record.
C10_FreeAtPlacement ==
    (last.op = "allocate" /\ last.code = StatusOK) =>
        \A i \in 1..Len(last.reps) :
            nodes[last.reps[i].nodeId].capacityBytes
              - nodes[last.reps[i].nodeId].usedBytes >= last.size


\* the operations that answer NOT_FOUND for a file that is not in the map
FileOps == {"commit", "lookup", "report-missing", "file-info", "delete-file"}

C22_DeletedIsTerminal ==
    [][/\ \A f \in DOMAIN files' \ DOMAIN files : files'[f].state # StateDeleted
       /\ \A f \in DOMAIN files \cap DOMAIN files' :
            files'[f].state = StateDeleted <=> files[f].state = StateDeleted]_vars

\* the two halves of C22 that the code keeps: nothing enters DELETED, and
\* report-missing and heal leave DELETED alone
C22_OnlyCommitLeavesDeleted ==
    [][\A f \in DOMAIN files \cap DOMAIN files' :
         /\ files'[f].state = StateDeleted => files[f].state = StateDeleted
         /\ (files[f].state = StateDeleted /\ files'[f].state # StateDeleted)
            => Answered("commit", StatusOK) /\ last'.fid = f]_vars

\* C26: every allocate that answers OK adds one entry to the files map under
\* a fileId no earlier allocate returned, so N successful allocates leave N
\* entries
C26_AllocateAddsOneFile ==
    [][\A slot \in DOMAIN pending \ DOMAIN pending' :
         /\ pending[slot].fileId \notin DOMAIN files
         /\ Cardinality(DOMAIN files') = Cardinality(DOMAIN files) + 1]_vars

\* C30: every mutation reads and writes inside one exclusive-lock section:
\* while an allocate is between its placement scan and its insertion, the
\* only step that changes the store is that insertion, and no second
\* allocate scans
C30_AllocateIsOneSection ==
    [][DOMAIN pending # {} =>
         \/ nodes' = nodes /\ files' = files /\ pending' = pending
         \/ /\ Cardinality(DOMAIN pending) = 1
            /\ pending' = <<>>]_vars

\* the fields of a file record that are fixed when allocate builds it
Immutable(meta) ==
    <<meta.fileId, meta.filename, meta.size, meta.checksum, meta.version,
      meta.createdAt>>

\* C28: the record an allocate inserts has state ALLOCATED, version 1, a
\* positive size, a sha256: checksum and exactly R replicas, all READY; and
\* no later operation on the record changes its fileId, filename, size,
\* checksum, version or createdAt (an allocate that draws the same fileId
\* inserts a record of its own)
C28_AllocateRecord ==
    [][/\ \A slot \in DOMAIN pending \ DOMAIN pending' :
            LET meta == files'[pending[slot].fileId] IN
            /\ meta.state = StateAllocated
            /\ meta.version = 1
            /\ meta.size > 0
            /\ HasPrefix(meta.checksum, "sha256:")
            /\ Len(meta.replicas) = RepFactor
            /\ \A i \in 1..Len(meta.replicas) : meta.replicas[i].status = ReplicaReady
       /\ \A f \in DOMAIN files \cap DOMAIN files' :
            (\A slot \in DOMAIN pending \ DOMAIN pending' : pending[slot].fileId # f)
            => Immutable(files'[f]) = Immutable(files[f])]_vars

\* a file that was allocated at one time and committed in full at a later one
C28_Witness ==
    \E f \in DOMAIN files :
        /\ files[f].state = StateAvailable
        /\ files[f].updatedAt > files[f].createdAt
        /\ files[f].version = 1

\* C29: a file enters DEGRADED only from AVAILABLE and only by a
\* report-missing or a heal pass; a commit never leaves its file DEGRADED
C29_DegradedOnlyFromAvailable ==
    [][/\ \A f \in DOMAIN files \cap DOMAIN files' :
            (files'[f].state = StateDegraded /\ files[f].state # StateDegraded)
            => /\ files[f].state = StateAvailable
               /\ \/ Answered("report-missing", StatusOK) /\ last'.fid = f
                  \/ Answered("heal", 0)
       /\ \A f \in DOMAIN files' \ DOMAIN files : files'[f].state # StateDegraded
       /\ Answered("commit", StatusOK) => files'[last'.fid].state # StateDegraded]_vars

\* a report-missing took an AVAILABLE file to DEGRADED
C29_Witness ==
    /\ last.op = "report-missing" /\ last.code = StatusOK
    /\ last.pre = StateAvailable
    /\ last.fid \in DOMAIN files
    /\ files[last.fid].state = StateDegraded

\* A, B and C are registered with the same positive capacity, hold nothing
\* and are HEALTHY, and no allocate is in flight
FreshFleet ==
    /\ DOMAIN nodes = NodeIds
    /\ pending = <<>>
    /\ \A id \in NodeIds :
          /\ nodes[id].capacityBytes = nodes["A"].capacityBytes
          /\ nodes[id].capacityBytes > 0
          /\ nodes[id].usedBytes = 0
          /\ healthOf(nodes[id], clock) = NodeHealthy

\* C25: on a fresh fleet A, B, C with R = 2 the first allocate places on
\* {A, B}, and the allocate that starts after it returned places on a set
\* that includes C
C25_FreshFleetRotation ==
    [][FreshFleet =>
         \A slot \in DOMAIN pending' \ DOMAIN pending :
            /\ (\A id \in NodeIds : nodes[id].lastChosen = ZeroTime)
               => ReplicaIds(pending'[slot]) = {"A", "B"}
            /\ (/\ nodes["A"].lastChosen # ZeroTime
                /\ nodes["B"].lastChosen # ZeroTime
                /\ nodes["C"].lastChosen = ZeroTime)
               => "C" \in ReplicaIds(pending'[slot])]_vars

\* the part of C25 the code keeps: an allocate on a fresh fleet places on
\* every node that no allocate has chosen yet when at most R of them exist
C25_UnchosenFirst ==
    [][FreshFleet =>
         \A slot \in DOMAIN pending' \ DOMAIN pending :
            LET unchosen == {id \in NodeIds : nodes[id].lastChosen = ZeroTime}
            IN Cardinality(unchosen) <= RepFactor
               => unchosen \subseteq ReplicaIds(pending'[slot])]_vars

ReadOps == {"list-files", "list-nodes", "metrics", "lookup", "file-info"}

\* C27: list-files, list-nodes, metrics, lookup and file-info leave the
\* files map and the nodes map exactly as they were and start no snapshot
C27_ReadsChangeNothing ==
    [][(/\ last'.op \in ReadOps
        /\ clock' = clock /\ pending' = pending /\ steps' = steps)
       => /\ files' = files
          /\ nodes' = nodes
          /\ ~last'.persist]_vars

\* list-nodes answered for a fleet in which the stored status of some node
\* is not the status reported, after a mutation that started a snapshot
C27_Witness ==
    /\ last.op = "list-nodes" /\ last.code = StatusOK
    /\ \E e \in last.view : e.status # nodes[e.nodeId].status
    /\ \E f \in DOMAIN files : files[f].updatedAt > files[f].createdAt

\* C23: a lookup or file-info of a file answered right after a commit of
\* that file answered OK runs after the commit released the lock, on the
\* record as the commit left it: file-info shows the state the commit
\* returned and READY on every replica the commit named, and lookup lists
\* the replicas of that record
C23_ReadAfterCommit ==
    [][(/\ last.op = "commit" /\ last.code = StatusOK
        /\ last'.op \in {"lookup", "file-info"} /\ last'.fid = last.fid
        /\ steps' = steps)
       => /\ lock = LockFree
          /\ files' = files
          /\ files[last.fid].state = last.state
          /\ last'.code = StatusOK
          /\ last'.op = "file-info"
             => \E meta \in last'.view :
                   /\ meta.state = last.state
                   /\ \A i \in 1..Len(meta.replicas) :
                         meta.replicas[i].nodeId \in last.up
                         => meta.replicas[i].status = ReplicaReady
          /\ last'.op = "lookup"
             => {last'.reps[i].nodeId : i \in 1..Len(last'.reps)}
                = ReplicaIds(files[last.fid])]_vars

\* a file-info shows the file AVAILABLE with a replica that a commit made
\* READY at the current time, after the time of the placement
C23_Witness ==
    /\ last.op = "file-info" /\ last.code = StatusOK
    /\ clock > 0
    /\ \E meta \in last.view :
          /\ meta.state = StateAvailable
          /\ meta.updatedAt = clock
          /\ \E i \in 1..Len(meta.replicas) :
                /\ meta.replicas[i].status = ReplicaReady
                /\ meta.replicas[i].lastVerifiedAt = clock

\* the uploads that the gateway answered with 502
FailedUploads == {fid \in DOMAIN gw : gw[fid].stage = "failed"}

C35_DegradedHasNonReady ==
    \A f \in DOMAIN files :
        files[f].state = StateDegraded
        => \E i \in 1..Len(files[f].replicas) :
              files[f].replicas[i].status # ReplicaReady

\* a commit naming every replica took a DEGRADED file that a heal pass had
\* extended to AVAILABLE
C35_Witness ==
    /\ last.op = "commit" /\ last.code = StatusOK
    /\ last.pre = StateDegraded
    /\ last.state = StateAvailable
    /\ Len(files[last.fid].replicas) > RepFactor
    /\ ReadyCount(files[last.fid]) = Len(files[last.fid].replicas)

\* C36: started from empty maps, every replica entry of every file, stored
\* or about to be inserted, names a node that is in the nodes map
C36_ReplicaNodesKnown ==
    /\ \A f \in DOMAIN files : ReplicaIds(files[f]) \subseteq DOMAIN nodes
    /\ \A s \in DOMAIN pending : ReplicaIds(pending[s]) \subseteq DOMAIN nodes

\* a node that holds a replica registered again after the placement
C36_Witness ==
    /\ last.op = "register-node" /\ last.code = StatusOK
    /\ \E f \in DOMAIN files :
          /\ last.node \in ReplicaIds(files[f])
          /\ nodes[last.node].lastChosen = ZeroTime

\* every replica of meta is READY on a node that is HEALTHY now
AllReadyAndHealthy(meta) ==
    \A i \in 1..Len(meta.replicas) :
        /\ meta.replicas[i].status = ReplicaReady
        /\ meta.replicas[i].nodeId \in DOMAIN nodes
        /\ healthOf(nodes[meta.replicas[i].nodeId], clock) = NodeHealthy

\* C37: a commit naming k of the R replicas of a freshly allocated file,
\* 0 < k < R, leaves the file PARTIAL with all R replicas READY; and a heal
\* pass leaves a PARTIAL file alone while all its replicas are READY on
\* HEALTHY nodes
C37_PartialNotHealed ==
    [][/\ (/\ Answered("commit", StatusOK)
           /\ files[last'.fid].state = StateAllocated
           /\ Len(files[last'.fid].replicas) = RepFactor
           /\ ReadyCount(files[last'.fid]) = RepFactor
           /\ Cardinality(last'.up \cap ReplicaIds(files[last'.fid])) \in 1..(RepFactor - 1))
          => /\ files'[last'.fid].state = StatePartial
             /\ ReadyCount(files'[last'.fid]) = RepFactor
       /\ Answered("heal", 0)
          => \A f \in DOMAIN files :
                (files[f].state = StatePartial /\ AllReadyAndHealthy(files[f]))
                => files'[f] = files[f]]_vars

\* a heal pass of the run left alone a PARTIAL file with R READY replicas
\* on HEALTHY nodes although two candidates were there
C37_Witness ==
    /\ last.op = "heal"
    /\ steps > MaxSteps - 4
    /\ \E f \in DOMAIN files :
          /\ files[f].state = StatePartial
          /\ Len(files[f].replicas) = RepFactor
          /\ AllReadyAndHealthy(files[f])
          /\ Cardinality(HealCandidates(files[f])) >= RepFactor

\* the step is a register-node or a heartbeat of node id that answered
RegisterOrHeartbeat(id) ==
    /\ last'.op \in {"register-node", "heartbeat"}
    /\ last'.node = id
    /\ clock' = clock /\ pending' = pending /\ steps' # steps

\* C38: no step removes a node; a step other than a register-node or a
\* heartbeat of a node leaves its url, capacityBytes, usedBytes and
\* lastSeenAt as they were, and changes its lastChosen only when it is the
\* insertion of an allocate that picked the node, which sets it to now
C38_NodeFrame ==
    [][\A id \in DOMAIN nodes :
         /\ id \in DOMAIN nodes'
         /\ ~RegisterOrHeartbeat(id)
            => /\ nodes'[id].url = nodes[id].url
               /\ nodes'[id].capacityBytes = nodes[id].capacityBytes
               /\ nodes'[id].usedBytes = nodes[id].usedBytes
               /\ nodes'[id].lastSeenAt = nodes[id].lastSeenAt
               /\ nodes'[id].lastChosen # nodes[id].lastChosen
                  => /\ \E slot \in DOMAIN pending \ DOMAIN pending' :
                           id \in ReplicaIds(pending[slot])
                     /\ nodes'[id].lastChosen = clock]_vars

\* a heal pass appended a replica on a node that no allocate has chosen
\* and that reports no bytes in use
C38_Witness ==
    /\ last.op = "heal"
    /\ \E f \in DOMAIN files :
          /\ Len(files[f].replicas) > RepFactor
          /\ LET n == files[f].replicas[Len(files[f].replicas)].nodeId
             IN /\ nodes[n].lastChosen = ZeroTime
                /\ nodes[n].usedBytes = 0

\* C39: when the gateway answers an upload with 200, the registry holds the
\* record of that fileId and the commit of this upload set it to AVAILABLE
C39_UploadOkMeansCommitted ==
    [][Answered("upload", StatusOK)
       => /\ last'.fid \in DOMAIN files'
          /\ files'[last'.fid].state = StateAvailable
          /\ last'.state = StateAvailable]_vars

\* C40: every running storage node is eventually in the nodes map
C40_EventuallyKnown ==
    <>(NodeIds \subseteq DOMAIN nodes)

\* what the heartbeats of a running node do instead: a node that is not in
\* the map stays out of it
C40_UnknownStaysUnknown ==
    [][DOMAIN nodes' = DOMAIN nodes]_vars

\* C31: no I/O happens while the registry lock is held; in particular the
\* HTTP response of a commit is written only after its exclusive lock has
\* been released
C31_ResponseAfterUnlock ==
    [][Answered("commit", StatusOK) => lock' = LockFree]_vars

\* every goroutine that was started has ended, none with a failed rename
Quiescent ==
    /\ tasks.queued = 0
    /\ DOMAIN tasks.run = {}
    /\ ~tasks.failed

\* files.json and nodes.json hold the maps of the store
DiskIsMemory ==
    \A p \in Paths : disk[p].json.exists /\ disk[p].json.data = marshal(p)

\* C32: files.json and nodes.json are at every instant absent or one
\* complete snapshot, never an empty or partly written file
C32_SnapshotsAreWhole ==
    \A p \in Paths : disk[p].json.exists => disk[p].json.data # <<>>

\* C33: a step that changes the files or the nodes map starts a snapshot
\* goroutine, and whenever all started goroutines have ended without a
\* failed rename the two files on disk equal the two maps
C33_QuiescentDiskIsMemory ==
    [][/\ (files' # files \/ nodes' # nodes) => tasks'.queued = tasks.queued + 1
       /\ Quiescent' => DiskIsMemory']_vars

\* two goroutines have run after the maps changed and the disk holds the
\* changed maps
C33_Witness ==
    /\ Quiescent
    /\ DiskIsMemory
    /\ steps = MaxSteps
    /\ files # (HealFile.fileId :> commitMeta(HealFile, {}, 0))
    /\ files # (HealFile.fileId :> commitMeta(HealFile, {"A", "B"}, 0))

\* C34: a file-info during which at most one store operation ran answers
\* with the record as it was when the handler fetched it or as it is when
\* the response is sent, never with fields of both
C34_FileInfoIsOneVersion ==
    [][\A fid \in DOMAIN reads :
          (fid \notin DOMAIN reads' /\ steps <= reads[fid].since + 1)
          => last'.view \subseteq {reads[fid].at, files[fid]}]_vars

====
